---------------------------- MODULE Spec2Model ----------------------------
(***************************************************************************)
(* Verification model of the schedule application (rksi_shedule_spo):      *)
(*   - the description PATCH resolver (backend schema + handler),          *)
(*   - the PhotoUploader upload orchestrator with bounded retry,           *)
(*   - the PhotoUploadModal (select, one batch request, timed hand-over),  *)
(*   - the search evaluator of the events page,                            *)
(*   - the API client's response interceptor,                              *)
(*   - the admin page's delete-category handler,                           *)
(*   - the debounced SearchInput of the events page,                       *)
(*   - the events page's description cache under overlapping saves,        *)
(*   - the inline and the modal description editors,                       *)
(*   - the month loader of the events page,                                *)
(*   - the photo lightbox of an event with its delete confirmation,        *)
(*   - the route table and the authentication redirects.                   *)
(* Each subsystem has its own specification (SpecPatch, SpecUpload,        *)
(* SpecUploads, SpecOverlap, SpecSearch, SpecClient, SpecAdmin, SpecInput, *)
(* SpecDesc, SpecEditor, SpecLoad, SpecLightbox, SpecRoute and, with the   *)
(* effects run, SpecRouteFair); the variables of the other subsystems stay *)
(* at their initial value.                                                 *)
(***************************************************************************)
EXTENDS Integers, Sequences, FiniteSets, TLC

VARIABLES
    events,      \* backend table: event id -> "missing" or a record with the stored description
    last,        \* the last request handled by the backend and its response
    files,       \* PhotoUploader, per invocation: the FileList handed to handleUpload
    valid,       \* PhotoUploader, per invocation: the valid files (validFileList)
    uploads,     \* PhotoUploader: the uploads state (list of UploadProgress)
    isUploading, \* PhotoUploader: the isUploading state
    pc,          \* PhotoUploader, per invocation: position of handleUpload
    attempt,     \* PhotoUploader, per invocation: local variable attempt
    lastError,   \* PhotoUploader, per invocation: local variable lastError
    outcomes,    \* observation: outcome of every request of the invocation, in order
    sent,        \* observation: the batch carried by every request of the invocation
    delays,      \* observation: the delays (ms) awaited by the invocation
    result,      \* observation: how the invocation ended
    cleanup,     \* PhotoUploader: number of pending 3 s clean-up timers
    notified,    \* observation: number of onUploadComplete calls of the invocation
    modalOpen,      \* PhotoUploadModal: the isOpen prop held by the parent
    modalFiles,     \* PhotoUploadModal: the files state
    modalProgress,  \* PhotoUploadModal: the progress state
    modalStatus,    \* PhotoUploadModal: the status state
    modalError,     \* PhotoUploadModal: the error state
    modalPc,        \* PhotoUploadModal: position of handleUpload
    modalTimer,     \* PhotoUploadModal: the pending 500 ms timer and the photos it holds
    modalResp,      \* observation: how the request of the last handleUpload completed
    modalDelivered, \* observation: photos handed to onUploadComplete since the last handleUpload
    serverCategories, \* events API: the grouped collection the backend returns
    categories,     \* EventsPage: the categories state
    searchQuery,    \* EventsPage: the searchQuery state
    shown,          \* EventsPage: the memoised filteredCategories the page renders
    token,          \* API client: localStorage item 'token'
    href,           \* API client: the page the browser shows (window.location.href / router)
    authLast,       \* observation: the last response the client handled, and the state it found
    adminServer,    \* admin API: category id -> whether it exists, and its number of events
    adminCategories, \* AdminPage: the categories state (with their events)
    adminPc,        \* AdminPage: position of handleDeleteCategory
    adminTarget,    \* AdminPage: the id handleDeleteCategory was called with
    adminError,     \* AdminPage: the error state
    deleteRequests, \* observation: the category ids a delete request was sent for
    acceptedPrompts, \* observation: the category ids whose confirmation prompt was accepted
    adminLast,      \* observation: the last confirmation prompt, its answer and the state it found
    localValue, \* SearchInput: the localValue state
    debounceRef, \* SearchInput: the timer held by debounceRef, the value it carries, the time left
    sinceKey, \* observation: time (ms) since the last keystroke, up to debounceMs
    burst, \* observation: the current burst of keystrokes and the onChange calls made for it
    cleared,\* observation: the clear button was pressed and nothing was typed since
    descStored, \* events API: the description the backend stores for the event
    descCached, \* EventsPage: the description of the event in the categories state
    descCalls, \* EventsPage: the two handleUpdateDescription calls, their argument and position
    descArrivals,\* observation: the successful responses of the calls that overlap, in order of arrival
    edKind, \* description editor: which component the row renders (EditableDescription or DescriptionEditorModal)
    edValue, \* description editor: the value / initialValue prop (the cached description)
    edOpen, \* DescriptionCell: the isModalOpen state
    edText, \* description editor: the text state
    edSaving, \* description editor: the saving state
    edSaved, \* description editor: the saved state
    edError, \* DescriptionEditorModal: the error state
    edOriginal, \* description editor: originalValue.current
    edPc, \* description editor: position of handleBlur / handleSave
    edSent, \* description editor: the newValue handed to onSave
    edTimer, \* description editor: a timer set after a successful save is pending
    edLast,\* observation: how the last save ended and the text the field held when it started
    selectedMonth, \* events page: the selectedMonth state (0 = the whole year)
    monthShown, \* events page: the categories state, as the month whose list it holds
    loading, \* events page: the loading state
    loadError, \* events page: the error state
    loadsInFlight,\* events page: the months whose loadEvents call awaits its response
    eventPhotos, \* event.photos of one event: the ids of its photos, in order
    lightboxIndex, \* EventCard's lightboxIndex: NoIndex or a 0-based index
    deletePhotoTarget, \* the photo the delete confirmation is open for, or NoPhoto
    deletesInFlight,\* ids of the photos whose delete request has no response yet
    pathname, \* router: the current location, or Closed before a page is opened
    mounted, \* the element the route table renders for the location
    storedToken, \* the visitor's localStorage item 'token'
    isAuthenticated, \* useAuth state of the mounted page: "null", "true" or "false"
    isAdmin, \* useAuth state of the mounted page
    authEffect, \* useAuth's effect: "none", "pending", "checking" (authApi.check in flight) or "done"
    adminEffect, \* AdminPage's redirect effect is due to run
    entered, \* the address the visitor opened and the token stored at that moment
    lastNav \* the last navigation: who asked for it, where to, push or replace

patchVars == <<events, last>>
uploadVars == <<files, valid, uploads, isUploading, pc, attempt, lastError, outcomes,
                sent, delays, result, cleanup, notified>>
modalVars == <<modalOpen, modalFiles, modalProgress, modalStatus, modalError,
               modalPc, modalTimer, modalResp, modalDelivered>>
searchVars == <<serverCategories, categories, searchQuery, shown>>
clientVars == <<token, href, authLast>>
adminVars == <<adminServer, adminCategories, adminPc, adminTarget, adminError,
               deleteRequests, acceptedPrompts, adminLast>>
inputVars == <<localValue, debounceRef, sinceKey, burst, cleared>>
descVars == <<descStored, descCached, descCalls, descArrivals>>
editorVars == <<edKind, edValue, edOpen, edText, edSaving, edSaved, edError,
                edOriginal, edPc, edSent, edTimer, edLast>>
loadVars == <<selectedMonth, monthShown, loading, loadError, loadsInFlight>>
lightboxVars == <<eventPhotos, lightboxIndex, deletePhotoTarget, deletesInFlight>>
routeVars == <<pathname, mounted, storedToken, isAuthenticated, isAdmin, authEffect,
               adminEffect, entered, lastNav>>
\* the state of the pages added to the first four subsystems
pageVars == <<inputVars, descVars, editorVars, loadVars, lightboxVars, routeVars>>
\* the state of the subsystems other than the resolver and the PhotoUploader
extVars == <<modalVars, searchVars, clientVars, adminVars, pageVars>>
\* everything but the subsystem an action belongs to
offModalVars == <<patchVars, uploadVars, searchVars, clientVars, adminVars, pageVars>>
offSearchVars == <<patchVars, uploadVars, modalVars, clientVars, adminVars, pageVars>>
offClientVars == <<patchVars, uploadVars, modalVars, searchVars, adminVars, pageVars>>
offAdminVars == <<patchVars, uploadVars, modalVars, searchVars, clientVars, pageVars>>
offInputVars == <<patchVars, uploadVars, modalVars, clientVars, adminVars, descVars,
                  editorVars, loadVars, lightboxVars, routeVars>>
offDescVars == <<patchVars, uploadVars, modalVars, searchVars, clientVars, adminVars,
                 inputVars, editorVars, loadVars, lightboxVars, routeVars>>
offEditorVars == <<patchVars, uploadVars, modalVars, searchVars, clientVars,
                   adminVars, inputVars, descVars, loadVars, lightboxVars, routeVars>>
offLoadVars == <<patchVars, uploadVars, modalVars, searchVars, clientVars, adminVars,
                 inputVars, descVars, editorVars, lightboxVars, routeVars>>
offLightboxVars == <<patchVars, uploadVars, modalVars, searchVars, clientVars,
                     adminVars, inputVars, descVars, editorVars, loadVars, routeVars>>
offRouteVars == <<patchVars, uploadVars, modalVars, searchVars, clientVars,
                  adminVars, inputVars, descVars, editorVars, loadVars, lightboxVars>>
vars == <<events, last, files, valid, uploads, isUploading, pc, attempt, lastError,
          outcomes, sent, delays, result, cleanup, notified, modalOpen, modalFiles,
          modalProgress, modalStatus, modalError, modalPc, modalTimer, modalResp,
          modalDelivered, serverCategories, categories, searchQuery, shown, token,
          href, authLast, adminServer, adminCategories, adminPc, adminTarget,
          adminError, deleteRequests, acceptedPrompts, adminLast, localValue,
          debounceRef, sinceKey, burst, cleared, descStored, descCached, descCalls,
          descArrivals, edKind, edValue, edOpen, edText, edSaving, edSaved, edError,
          edOriginal, edPc, edSent, edTimer, edLast, selectedMonth, monthShown,
          loading, loadError, loadsInFlight, eventPhotos, lightboxIndex,
          deletePhotoTarget, deletesInFlight, pathname, mounted, storedToken,
          isAuthenticated, isAdmin, authEffect, adminEffect, entered, lastNav>>

-----------------------------------------------------------------------------
(* Bounds *)

MaxLen == 3      \* longest text typed into a description
MaxEvents == 1   \* number of event ids

-----------------------------------------------------------------------------
(* Text: a string is a sequence of one-character strings *)

Chars == {" ", "a"}

IsSpace(c) == c = " "

RECURSIVE lstrip(_)
lstrip(s) == IF s # <<>> /\ IsSpace(Head(s)) THEN lstrip(Tail(s)) ELSE s

RECURSIVE rstrip(_)
rstrip(s) ==
    IF s # <<>> /\ IsSpace(s[Len(s)]) THEN rstrip(SubSeq(s, 1, Len(s) - 1)) ELSE s

\* mutant of strip: trims the left side only
strip_left_only(s) == lstrip(s)

\* Python str.strip() / JavaScript String.prototype.trim()
strip(s) == rstrip(lstrip(s))

Texts == UNION {[1..n -> Chars] : n \in 0..MaxLen}

-----------------------------------------------------------------------------
(* Values of the description field *)

NONE  == [tag |-> "none",  s |-> <<>>]    \* Python None / JSON null
UNSET == [tag |-> "unset", s |-> <<>>]    \* the UNSET sentinel
NUM   == [tag |-> "num",   s |-> <<>>]    \* a JSON value that is no string (a number)
Str(s) == [tag |-> "str", s |-> s]

JsonValues == {NONE, NUM} \cup {Str(s) : s \in Texts}

\* a request body: the set of keys it holds, and the value under "description"
Payloads == {[keys |-> {}, description |-> NONE]}
              \cup {[keys |-> {"description"}, description |-> v] : v \in JsonValues}

\* mutant of normalize_description: keeps the empty result of strip as a string
normalize_description_keep_empty(v) ==
    IF v = UNSET THEN UNSET
    ELSE IF v = NONE THEN NONE
    ELSE IF v.tag = "str" THEN Str(strip(v.s))
    ELSE v

\* EventPublicUpdate.normalize_description (field validator, mode="before")
normalize_description(v) ==
    IF v = UNSET THEN UNSET
    ELSE IF v = NONE THEN NONE
    ELSE IF v.tag = "str"
         THEN LET stripped == strip(v.s) IN
              IF stripped # <<>> THEN Str(stripped) ELSE NONE
    ELSE v

\* EventPublicUpdate.model_validate: the default UNSET when the key is missing,
\* otherwise the validator and then the type check str | None | _Unset
EventPublicUpdate(payload) ==
    IF "description" \notin payload.keys
    THEN [ok |-> TRUE, description |-> UNSET]
    ELSE LET v == normalize_description(payload.description) IN
         IF v.tag \in {"str", "none", "unset"}
         THEN [ok |-> TRUE, description |-> v]
         ELSE [ok |-> FALSE, description |-> UNSET]

-----------------------------------------------------------------------------
(* Backend table *)

EventIds == 1..MaxEvents

MISSING == [exists |-> FALSE, description |-> NONE]
Event(d) == [exists |-> TRUE, description |-> d]

NoRequest ==
    [op |-> "none", id |-> 0, payload |-> [keys |-> {}, description |-> NONE],
     before |-> MISSING, status |-> 0, echo |-> NONE, again |-> FALSE, prior |-> MISSING]

\* a request and its response; again tells that the request before it was the
\* same successful PATCH, and prior is then the record that PATCH found
Request(op, id, payload, before, status, echo) ==
    LET again == /\ op = "patch" /\ status = 200
                 /\ last.op = op /\ last.id = id /\ last.payload = payload
                 /\ last.status = 200
    IN  [op |-> op, id |-> id, payload |-> payload, before |-> before,
         status |-> status, echo |-> echo, again |-> again,
         prior |-> IF again THEN last.before ELSE MISSING]

\* mutant of update_event_description: the handler before the fix (is not None)
update_event_description_not_none(event, event_update) ==
    IF event_update.description # NONE /\ event_update.description # UNSET
    THEN [event EXCEPT !.description = event_update.description]
    ELSE event

\* mutant of update_event_description: assigns whatever the schema holds
update_event_description_always(event, event_update) ==
    IF event_update.description = UNSET
    THEN [event EXCEPT !.description = NONE]
    ELSE [event EXCEPT !.description = event_update.description]

\* update_event: if event_update.description is not UNSET: event.description = ...
update_event_description(event, event_update) ==
    IF event_update.description # UNSET
    THEN [event EXCEPT !.description = event_update.description]
    ELSE event

\* PATCH /api/events/{id} on an existing event with a body the schema accepts
PatchDescription(id, payload) ==
    /\ events[id].exists
    /\ EventPublicUpdate(payload).ok
    /\ LET event == update_event_description(events[id], EventPublicUpdate(payload)) IN
       /\ events' = [events EXCEPT ![id] = event]
       /\ last' = Request("patch", id, payload, events[id], 200, event.description)
    /\ UNCHANGED <<uploadVars, extVars>>

\* PATCH with a body the schema rejects: validation failure, nothing is written
PatchInvalid(id, payload) ==
    /\ ~EventPublicUpdate(payload).ok
    /\ events' = events
    /\ last' = Request("patch", id, payload, events[id], 422, NONE)
    /\ UNCHANGED <<uploadVars, extVars>>

\* PATCH of an event that does not exist: not-found failure, nothing is written
PatchNotFound(id, payload) ==
    /\ ~events[id].exists
    /\ EventPublicUpdate(payload).ok
    /\ events' = events
    /\ last' = Request("patch", id, payload, events[id], 404, NONE)
    /\ UNCHANGED <<uploadVars, extVars>>

(* Administrator endpoints.  The request schemas EventCreate / EventUpdate   *)
(* are in the source; the handlers are not, and follow the resolver         *)
(* contract: trim text, an empty result is the same as null, a missing key  *)
(* leaves the field alone.                                                  *)

\* mutant of EventAdminSchema: only the decoded value tells whether the key was sent
EventAdminSchema_value_only(payload) ==
    IF "description" \notin payload.keys
    THEN [ok |-> TRUE, set |-> {}, description |-> NONE]
    ELSE IF payload.description.tag \in {"str", "none"}
         THEN [ok |-> TRUE,
               set |-> IF payload.description = NONE THEN {} ELSE {"description"},
               description |-> payload.description]
         ELSE [ok |-> FALSE, set |-> {}, description |-> NONE]

\* EventCreate / EventUpdate: description: str | None = None, no validator; set
\* is the set of fields the body holds (model_fields_set of the pydantic model)
EventAdminSchema(payload) ==
    IF "description" \notin payload.keys
    THEN [ok |-> TRUE, set |-> {}, description |-> NONE]
    ELSE IF payload.description.tag \in {"str", "none"}
         THEN [ok |-> TRUE, set |-> {"description"}, description |-> payload.description]
         ELSE [ok |-> FALSE, set |-> {}, description |-> NONE]

\* the resolver's normalisation rule for a text field
resolve_text(v) ==
    IF v.tag = "str" /\ strip(v.s) # <<>> THEN Str(strip(v.s)) ELSE NONE

\* POST /api/admin/events: create an event from an accepted body
AdminCreateEvent(id, payload) ==
    /\ ~events[id].exists
    /\ EventAdminSchema(payload).ok
    /\ LET event == Event(resolve_text(EventAdminSchema(payload).description)) IN
       /\ events' = [events EXCEPT ![id] = event]
       /\ last' = Request("create", id, payload, events[id], 200, event.description)
    /\ UNCHANGED <<uploadVars, extVars>>

\* PUT /api/admin/events/{id}: full-field update of an existing event
AdminUpdateEvent(id, payload) ==
    /\ events[id].exists
    /\ EventAdminSchema(payload).ok
    /\ LET event == IF "description" \in EventAdminSchema(payload).set
                    THEN Event(resolve_text(EventAdminSchema(payload).description))
                    ELSE events[id] IN
       /\ events' = [events EXCEPT ![id] = event]
       /\ last' = Request("update", id, payload, events[id], 200, event.description)
    /\ UNCHANGED <<uploadVars, extVars>>

\* DELETE /api/admin/events/{id}
AdminDeleteEvent(id) ==
    /\ events[id].exists
    /\ events' = [events EXCEPT ![id] = MISSING]
    /\ last' = Request("delete", id, NoRequest.payload, events[id], 200, NONE)
    /\ UNCHANGED <<uploadVars, extVars>>

InitPatch ==
    /\ events = [id \in EventIds |-> MISSING]
    /\ last = NoRequest

NextPatch ==
    \/ \E id \in EventIds, payload \in Payloads : PatchDescription(id, payload)
    \/ \E id \in EventIds, payload \in Payloads : PatchInvalid(id, payload)
    \/ \E id \in EventIds, payload \in Payloads : PatchNotFound(id, payload)
    \/ \E id \in EventIds, payload \in Payloads : AdminCreateEvent(id, payload)
    \/ \E id \in EventIds, payload \in Payloads : AdminUpdateEvent(id, payload)
    \/ \E id \in EventIds : AdminDeleteEvent(id)

-----------------------------------------------------------------------------
(* PhotoUploader: the upload orchestrator *)

MaxFiles == 3    \* most files in one selection

\* mutant of MAX_RETRY_ATTEMPTS: one attempt more
MAX_RETRY_ATTEMPTS_plus_one == 3 + 1

MAX_RETRY_ATTEMPTS == 3
RETRY_DELAY_MS == 1500

ALLOWED_TYPES == {"image/jpeg", "image/png"}

Types == {"image/jpeg", "image/png", "image/gif"}
\* file names of a selection: every second one holds a colon
NameOf(k) == IF k % 2 = 0 THEN <<"b", ":", "c">> ELSE <<"a">>
File(name, type) == [name |-> name, type |-> type]
FileLists ==
    UNION {{[k \in 1..n |-> File(NameOf(k), ty[k])] : ty \in [1..n -> Types]} : n \in 1..MaxFiles}

\* the uploader runs at most two handleUpload calls at a time in this model
Invs == {1, 2}

(* JavaScript strings *)

UpperCase == <<"A", "B", "C", "D", "E", "F", "G", "H", "I", "J", "K", "L", "M",
               "N", "O", "P", "Q", "R", "S", "T", "U", "V", "W", "X", "Y", "Z">>
LowerCase == <<"a", "b", "c", "d", "e", "f", "g", "h", "i", "j", "k", "l", "m",
               "n", "o", "p", "q", "r", "s", "t", "u", "v", "w", "x", "y", "z">>

toLowerChar(c) ==
    IF \E k \in 1..Len(UpperCase) : UpperCase[k] = c
    THEN LowerCase[CHOOSE k \in 1..Len(UpperCase) : UpperCase[k] = c]
    ELSE c

\* String.prototype.toLowerCase
toLowerCase(s) == [k \in 1..Len(s) |-> toLowerChar(s[k])]

\* String.prototype.includes
includes(s, sub) ==
    \E k \in 0..(Len(s) - Len(sub)) : SubSeq(s, k + 1, k + Len(sub)) = sub

\* String.prototype.split on a one-character separator
RECURSIVE split(_, _)
split(s, sep) ==
    IF \E k \in 1..Len(s) : s[k] = sep
    THEN LET k == CHOOSE j \in 1..Len(s) : s[j] = sep /\ \A m \in 1..(j - 1) : s[m] # sep
         IN  <<SubSeq(s, 1, k - 1)>> \o split(SubSeq(s, k + 1, Len(s)), sep)
    ELSE <<s>>

Undefined == <<"undefined">>

(* Errors a rejected photosApi.upload carries (axios in a browser).  The   *)
(* field responded tells whether the backend answered.                     *)

NoError ==
    [isNull |-> TRUE, code |-> "", isError |-> FALSE, message |-> <<>>,
     responded |-> FALSE]

AxiosError(code, message, responded) ==
    [isNull |-> FALSE, code |-> code, isError |-> TRUE, message |-> message,
     responded |-> responded]

MsgNetworkError == <<"N", "e", "t", "w", "o", "r", "k", " ", "E", "r", "r", "o", "r">>
MsgTimeout == <<"t", "i", "m", "e", "o", "u", "t", " ", "o", "f", " ", "0", "m", "s", " ", "e", "x", "c", "e", "e", "d", "e", "d">>
MsgAborted == <<"R", "e", "q", "u", "e", "s", "t", " ", "a", "b", "o", "r", "t", "e", "d">>
MsgStatus400 == <<"R", "e", "q", "u", "e", "s", "t", " ", "f", "a", "i", "l", "e", "d", " ", "w", "i", "t", "h", " ", "s", "t", "a", "t", "u", "s", " ", "c", "o", "d", "e", " ", "4", "0", "0">>
MsgStatus500 == <<"R", "e", "q", "u", "e", "s", "t", " ", "f", "a", "i", "l", "e", "d", " ", "w", "i", "t", "h", " ", "s", "t", "a", "t", "u", "s", " ", "c", "o", "d", "e", " ", "5", "0", "0">>

TransportErrors ==
    {AxiosError("ERR_NETWORK", MsgNetworkError, FALSE),
     AxiosError("ECONNABORTED", MsgAborted, FALSE),
     AxiosError("ECONNABORTED", MsgTimeout, FALSE),
     AxiosError("ETIMEDOUT", MsgTimeout, FALSE)}

ApplicationErrors ==
    {AxiosError("ERR_BAD_REQUEST", MsgStatus400, TRUE),
     AxiosError("ERR_BAD_RESPONSE", MsgStatus500, TRUE)}

\* mutant of isNetworkError: every rejection counts as a network error
isNetworkError_always(error) == ~error.isNull

\* mutant of isNetworkError: no rejection counts as a network error
isNetworkError_never(error) == FALSE

\* isNetworkError
isNetworkError(error) ==
    IF error.isNull THEN FALSE
    ELSE IF error.code \in {"ERR_NETWORK", "ECONNABORTED", "ETIMEDOUT"} THEN TRUE
    ELSE IF error.isError
         THEN LET message == toLowerCase(error.message) IN
              \/ includes(message, <<"n", "e", "t", "w", "o", "r", "k">>)
              \/ includes(message, <<"t", "i", "m", "e", "o", "u", "t">>)
              \/ includes(message, <<"c", "o", "n", "n", "e", "c", "t", "i", "o", "n">>)
              \/ includes(message, <<"f", "e", "t", "c", "h">>)
    ELSE FALSE

\* the three user-facing messages of PhotoUploader (in Russian in the source)
MsgFormat == <<"wrong format (JPEG and PNG only)">>
MsgNetworkFailed == <<"Network error. Try again later.">>
MsgUploadFailed == <<"Upload error">>
MsgServer == <<"server error">>

UploadProgress(filename, progress, status, error, retryAttempt, inv) ==
    [filename |-> filename, progress |-> progress, status |-> status,
     error |-> error, retryAttempt |-> retryAttempt, inv |-> inv]

\* mutant of validateFiles: every file passes
validateFiles_all_valid(fl) == [valid |-> fl, errors |-> <<>>]

\* mutant of validateFiles: the rejected files are reported and still uploaded
validateFiles_keep_rejected(fl) ==
    LET bad == SelectSeq(fl, LAMBDA f : f.type \notin ALLOWED_TYPES) IN
    [valid  |-> fl,
     errors |-> [k \in 1..Len(bad) |-> bad[k].name \o <<":", " ">> \o MsgFormat]]

\* validateFiles
validateFiles(fl) ==
    LET bad == SelectSeq(fl, LAMBDA f : f.type \notin ALLOWED_TYPES) IN
    [valid  |-> SelectSeq(fl, LAMBDA f : f.type \in ALLOWED_TYPES),
     errors |-> [k \in 1..Len(bad) |-> bad[k].name \o <<":", " ">> \o MsgFormat]]

\* handleUpload: errorUploads
errorUploads(errors, i) ==
    [k \in 1..Len(errors) |->
        LET parts == split(errors[k], ":") IN
        UploadProgress(parts[1], 0, "error",
                       IF Len(parts) >= 2 THEN strip(parts[2]) ELSE Undefined, 0, i)]

\* handleUpload: uploadProgress
uploadProgress(v, i) ==
    [k \in 1..Len(v) |-> UploadProgress(v[k].name, 0, "uploading", Undefined, 0, i)]

InFlight(u) == u.status = "uploading" \/ u.status = "retrying"

\* mutant of markRetrying: the progress of the failed attempt stays on the screen
markRetrying_keeps_progress(ups, a) ==
    IF a > 1
    THEN [k \in 1..Len(ups) |->
            IF InFlight(ups[k])
            THEN [ups[k] EXCEPT !.status = "retrying", !.retryAttempt = a]
            ELSE ups[k]]
    ELSE ups

\* handleUpload, top of the loop body: the retry status update for attempts > 1
markRetrying(ups, a) ==
    IF a > 1
    THEN [k \in 1..Len(ups) |->
            IF InFlight(ups[k])
            THEN [ups[k] EXCEPT !.status = "retrying", !.progress = 0, !.retryAttempt = a]
            ELSE ups[k]]
    ELSE ups

\* onProgress callback: the percentage goes to every in-flight entry
setProgress(ups, percent) ==
    [k \in 1..Len(ups) |->
        IF InFlight(ups[k]) THEN [ups[k] EXCEPT !.progress = percent] ELSE ups[k]]

\* handleUpload, success path: progress 100 and status success
markSuccess(ups) ==
    [k \in 1..Len(ups) |->
        IF InFlight(ups[k])
        THEN [ups[k] EXCEPT !.progress = 100, !.status = "success", !.retryAttempt = 0]
        ELSE ups[k]]

\* handleUpload, success path: one 'Server error' entry per server-side error
serverErrors(ups, n, i) ==
    ups \o [k \in 1..n |-> UploadProgress(<<"Server error">>, 0, "error", MsgServer, 0, i)]

\* handleUpload, after the loop: all retries exhausted or non-network error
markFailed(ups, err) ==
    [k \in 1..Len(ups) |->
        IF InFlight(ups[k])
        THEN [ups[k] EXCEPT !.status = "error", !.retryAttempt = 0,
                            !.error = IF isNetworkError(err)
                                      THEN MsgNetworkFailed
                                      ELSE MsgUploadFailed]
        ELSE ups[k]]

Round(n, d) == (2 * n + d) \div (2 * d)

Totals == {0, 2}

Outcome(kind, photos, errors) == [kind |-> kind, photos |-> photos, errors |-> errors]

ErrorKind(e) == IF e.responded THEN "application" ELSE "network"

\* handleUpload(files) up to its first await: validation, then attempt 1 is sent
handleUpload(i, fl) ==
    /\ pc[i] \in {"idle", "done"}
    /\ LET v == validateFiles(fl) IN
       /\ files' = [files EXCEPT ![i] = fl]
       /\ valid' = [valid EXCEPT ![i] = v.valid]
       /\ outcomes' = [outcomes EXCEPT ![i] = <<>>]
       /\ delays' = [delays EXCEPT ![i] = <<>>]
       /\ notified' = [notified EXCEPT ![i] = 0]
       /\ lastError' = [lastError EXCEPT ![i] = NoError]
       /\ attempt' = [attempt EXCEPT ![i] = 1]
       /\ IF Len(v.valid) = 0
          THEN /\ uploads' = errorUploads(v.errors, i)
               /\ isUploading' = isUploading
               /\ sent' = [sent EXCEPT ![i] = <<>>]
               /\ pc' = [pc EXCEPT ![i] = "done"]
               /\ result' = [result EXCEPT ![i] = "rejected"]
          ELSE /\ uploads' = markRetrying(errorUploads(v.errors, i)
                                            \o uploadProgress(v.valid, i), 1)
               /\ isUploading' = TRUE
               /\ sent' = [sent EXCEPT ![i] = <<v.valid>>]
               /\ pc' = [pc EXCEPT ![i] = "await"]
               /\ result' = [result EXCEPT ![i] = "running"]
    /\ UNCHANGED <<cleanup, patchVars, extVars>>

\* photosApi.upload: onUploadProgress -> onProgress(percent)
onProgress(i, loaded, total) ==
    /\ pc[i] = "await"
    /\ total # 0
    /\ uploads' = setProgress(uploads, Round(loaded * 100, total))
    /\ UNCHANGED <<files, valid, isUploading, pc, attempt, lastError, outcomes, sent,
                   delays, result, cleanup, notified, patchVars, extVars>>

\* the await of photosApi.upload resolves with {photos, errors}
uploadResolved(i, photos, errors) ==
    /\ pc[i] = "await"
    /\ uploads' = serverErrors(markSuccess(uploads), errors, i)
    /\ notified' = [notified EXCEPT ![i] = @ + 1]
    /\ cleanup' = cleanup + 1
    /\ isUploading' = FALSE
    /\ outcomes' = [outcomes EXCEPT ![i] = Append(@, Outcome("ok", photos, errors))]
    /\ pc' = [pc EXCEPT ![i] = "done"]
    /\ result' = [result EXCEPT ![i] = "succeeded"]
    /\ UNCHANGED <<files, valid, attempt, lastError, sent, delays, patchVars, extVars>>

\* the await of photosApi.upload rejects: the catch block, and the code after the loop
uploadRejected(i, err) ==
    /\ pc[i] = "await"
    /\ lastError' = [lastError EXCEPT ![i] = err]
    /\ outcomes' = [outcomes EXCEPT ![i] = Append(@, Outcome(ErrorKind(err), 0, 0))]
    /\ IF isNetworkError(err) /\ attempt[i] < MAX_RETRY_ATTEMPTS
       THEN /\ attempt' = [attempt EXCEPT ![i] = @ + 1]
            /\ delays' = [delays EXCEPT ![i] = Append(@, RETRY_DELAY_MS)]
            /\ pc' = [pc EXCEPT ![i] = "delay"]
            /\ UNCHANGED <<uploads, isUploading, result>>
       ELSE /\ uploads' = markFailed(uploads, err)
            /\ isUploading' = FALSE
            /\ pc' = [pc EXCEPT ![i] = "done"]
            /\ result' = [result EXCEPT ![i] = "failed"]
            /\ UNCHANGED <<attempt, delays>>
    /\ UNCHANGED <<files, valid, sent, cleanup, notified, patchVars, extVars>>

\* await delay(RETRY_DELAY_MS) resolves: continue, the loop test, the next attempt is sent
delayElapsed(i) ==
    /\ pc[i] = "delay"
    /\ IF attempt[i] <= MAX_RETRY_ATTEMPTS
       THEN /\ uploads' = markRetrying(uploads, attempt[i])
            /\ sent' = [sent EXCEPT ![i] = Append(@, valid[i])]
            /\ pc' = [pc EXCEPT ![i] = "await"]
            /\ UNCHANGED <<isUploading, result>>
       ELSE /\ uploads' = markFailed(uploads, lastError[i])
            /\ isUploading' = FALSE
            /\ pc' = [pc EXCEPT ![i] = "done"]
            /\ result' = [result EXCEPT ![i] = "failed"]
            /\ UNCHANGED sent
    /\ UNCHANGED <<files, valid, attempt, lastError, outcomes, delays, cleanup,
                   notified, patchVars, extVars>>

\* the 3 s timer set on success: only the error entries stay in the list
clearSuccessUploads ==
    /\ cleanup > 0
    /\ uploads' = SelectSeq(uploads, LAMBDA u : u.status = "error")
    /\ cleanup' = cleanup - 1
    /\ UNCHANGED <<files, valid, isUploading, pc, attempt, lastError, outcomes, sent,
                   delays, result, notified, patchVars, extVars>>

InitUpload ==
    /\ files = [i \in Invs |-> <<>>]
    /\ valid = [i \in Invs |-> <<>>]
    /\ uploads = <<>>
    /\ isUploading = FALSE
    /\ pc = [i \in Invs |-> "idle"]
    /\ attempt = [i \in Invs |-> 1]
    /\ lastError = [i \in Invs |-> NoError]
    /\ outcomes = [i \in Invs |-> <<>>]
    /\ sent = [i \in Invs |-> <<>>]
    /\ delays = [i \in Invs |-> <<>>]
    /\ result = [i \in Invs |-> "none"]
    /\ cleanup = 0
    /\ notified = [i \in Invs |-> 0]

\* no handleUpload is running and no clean-up timer is pending
Quiescent == cleanup = 0 /\ \A i \in Invs : pc[i] \in {"idle", "done"}

\* one invocation at a time, each started on a quiescent uploader
NextUpload ==
    \/ \E fl \in FileLists : Quiescent /\ handleUpload(1, fl)
    \/ \E loaded \in 0..2, total \in Totals : loaded <= total /\ onProgress(1, loaded, total)
    \/ \E photos \in 0..MaxFiles, errors \in 0..MaxFiles :
          /\ photos + errors <= Len(valid[1])
          /\ uploadResolved(1, photos, errors)
    \/ \E err \in TransportErrors \cup ApplicationErrors : uploadRejected(1, err)
    \/ delayElapsed(1)
    \/ clearSuccessUploads

-----------------------------------------------------------------------------
(* PhotoUploadModal (the multi-file version): select files, one batch request, *)
(* no retry; on success a 500 ms timer hands the photos to the parent.         *)

Null == <<"null">>

\* Array.prototype.join
RECURSIVE join(_, _)
join(a, sep) ==
    IF a = <<>> THEN <<>>
    ELSE IF Len(a) = 1 THEN a[1]
    ELSE a[1] \o sep \o join(Tail(a), sep)

\* the two user-facing messages of PhotoUploadModal (in Russian in the source)
MsgOnlyJpegPng == <<"Only JPEG and PNG are supported">>
MsgModalFailed == <<"Upload error. Try again.">>

\* validateFile
validateFile(file) == IF file.type \notin ALLOWED_TYPES THEN MsgOnlyJpegPng ELSE Null

\* response.data.errors: one string per file the backend refused
responseErrors(n) == [k \in 1..n |-> NameOf(k) \o <<":", " ">> \o MsgServer]

NoTimer == [pending |-> FALSE, photos |-> 0]
Timer(photos) == [pending |-> TRUE, photos |-> photos]

\* how a request completed, and the error message the handler left on the screen
ModalOutcome(kind, photos, errors, error) ==
    [kind |-> kind, photos |-> photos, errors |-> errors, error |-> error]

NoOutcome == ModalOutcome("none", 0, 0, Null)

\* the parent renders the modal with isOpen = true: the reset effect runs
openModal ==
    /\ ~modalOpen
    /\ ~modalTimer.pending
    /\ modalOpen' = TRUE
    /\ modalFiles' = <<>>
    /\ modalProgress' = 0
    /\ modalStatus' = "idle"
    /\ modalError' = Null
    /\ modalPc' = "idle"
    /\ modalResp' = NoOutcome
    /\ UNCHANGED <<modalTimer, modalDelivered, offModalVars>>

\* mutant of handleFilesSelect: a selection puts the status back to idle
handleFilesSelect_resets_status(selectedFiles) ==
    /\ modalOpen
    /\ LET validFiles == SelectSeq(selectedFiles, LAMBDA f : validateFile(f) = Null)
           bad == SelectSeq(selectedFiles, LAMBDA f : validateFile(f) # Null)
           errors == [k \in 1..Len(bad) |-> bad[k].name \o <<":", " ">> \o validateFile(bad[k])]
       IN  /\ Len(modalFiles) + Len(validFiles) <= MaxFiles
           /\ modalError' = IF Len(errors) > 0 THEN join(errors, <<";", " ">>) ELSE Null
           /\ modalFiles' = IF Len(validFiles) > 0 THEN modalFiles \o validFiles ELSE modalFiles
    /\ modalStatus' = IF modalStatus = "uploading" THEN modalStatus ELSE "idle"
    /\ UNCHANGED <<modalOpen, modalProgress, modalPc, modalTimer,
                   modalResp, modalDelivered, offModalVars>>

\* handleFilesSelect (from handleInputChange and handleDrop)
handleFilesSelect(selectedFiles) ==
    /\ modalOpen
    /\ LET validFiles == SelectSeq(selectedFiles, LAMBDA f : validateFile(f) = Null)
           bad == SelectSeq(selectedFiles, LAMBDA f : validateFile(f) # Null)
           errors == [k \in 1..Len(bad) |-> bad[k].name \o <<":", " ">> \o validateFile(bad[k])]
       IN  /\ Len(modalFiles) + Len(validFiles) <= MaxFiles
           /\ modalError' = IF Len(errors) > 0 THEN join(errors, <<";", " ">>) ELSE Null
           /\ modalFiles' = IF Len(validFiles) > 0 THEN modalFiles \o validFiles ELSE modalFiles
    /\ UNCHANGED <<modalOpen, modalProgress, modalStatus, modalPc, modalTimer,
                   modalResp, modalDelivered, offModalVars>>

\* removeFile: the remove button of a preview is rendered only while status is idle
removeFile(k) ==
    /\ modalOpen
    /\ modalStatus = "idle"
    /\ k \in 1..Len(modalFiles)
    /\ modalFiles' = SubSeq(modalFiles, 1, k - 1) \o SubSeq(modalFiles, k + 1, Len(modalFiles))
    /\ UNCHANGED <<modalOpen, modalProgress, modalStatus, modalError, modalPc, modalTimer,
                   modalResp, modalDelivered, offModalVars>>

\* handleUpload up to its await; the upload button is disabled without files and
\* while status is uploading or success
modalHandleUpload ==
    /\ modalOpen
    /\ modalStatus \notin {"uploading", "success"}
    /\ Len(modalFiles) # 0
    /\ modalStatus' = "uploading"
    /\ modalProgress' = 0
    /\ modalError' = Null
    /\ modalPc' = "await"
    /\ modalResp' = NoOutcome
    /\ modalDelivered' = 0
    /\ UNCHANGED <<modalOpen, modalFiles, modalTimer, offModalVars>>

\* photosApi.upload: onUploadProgress -> setProgress(percent)
modalOnProgress(loaded, total) ==
    /\ modalPc = "await"
    /\ total # 0
    /\ modalProgress' = Round(loaded * 100, total)
    /\ UNCHANGED <<modalOpen, modalFiles, modalStatus, modalError, modalPc, modalTimer,
                   modalResp, modalDelivered, offModalVars>>

\* mutant of modalResolved: any server-reported error fails the whole invocation
modalResolved_errors_fail(photos, errors) ==
    /\ modalPc = "await"
    /\ LET error == IF errors > 0
                    THEN join(responseErrors(errors), <<";", " ">>)
                    ELSE modalError
       IN  /\ modalError' = error
           /\ modalResp' = ModalOutcome("ok", photos, errors, error)
    /\ IF errors > 0
       THEN /\ modalStatus' = "error"
            /\ UNCHANGED <<modalProgress, modalTimer>>
       ELSE IF photos > 0
       THEN /\ modalStatus' = "success"
            /\ modalProgress' = 100
            /\ modalTimer' = Timer(photos)
       ELSE UNCHANGED <<modalStatus, modalProgress, modalTimer>>
    /\ modalPc' = "done"
    /\ UNCHANGED <<modalOpen, modalFiles, modalDelivered, offModalVars>>

\* the await of photosApi.upload resolves with {photos, errors}
modalResolved(photos, errors) ==
    /\ modalPc = "await"
    /\ LET error == IF errors > 0
                    THEN join(responseErrors(errors), <<";", " ">>)
                    ELSE modalError
       IN  /\ modalError' = error
           /\ modalResp' = ModalOutcome("ok", photos, errors, error)
    /\ IF photos > 0
       THEN /\ modalStatus' = "success"
            /\ modalProgress' = 100
            /\ modalTimer' = Timer(photos)
       ELSE IF errors > 0
       THEN /\ modalStatus' = "error"
            /\ UNCHANGED <<modalProgress, modalTimer>>
       ELSE UNCHANGED <<modalStatus, modalProgress, modalTimer>>
    /\ modalPc' = "done"
    /\ UNCHANGED <<modalOpen, modalFiles, modalDelivered, offModalVars>>

\* the await of photosApi.upload rejects: the catch block
modalRejected(err) ==
    /\ modalPc = "await"
    /\ modalStatus' = "error"
    /\ modalError' = MsgModalFailed
    /\ modalResp' = ModalOutcome(ErrorKind(err), 0, 0, MsgModalFailed)
    /\ modalPc' = "done"
    /\ UNCHANGED <<modalOpen, modalFiles, modalProgress, modalTimer,
                   modalDelivered, offModalVars>>

\* the 500 ms timer set on success: onUploadComplete(photos); onClose()
modalTimerFired ==
    /\ modalTimer.pending
    /\ modalDelivered' = modalTimer.photos
    /\ modalOpen' = FALSE
    /\ modalTimer' = NoTimer
    /\ UNCHANGED <<modalFiles, modalProgress, modalStatus, modalError, modalPc,
                   modalResp, offModalVars>>

\* handleClose (close button, cancel button, overlay click)
handleClose ==
    /\ modalOpen
    /\ modalStatus # "uploading"
    /\ modalOpen' = FALSE
    /\ UNCHANGED <<modalFiles, modalProgress, modalStatus, modalError, modalPc, modalTimer,
                   modalResp, modalDelivered, offModalVars>>

\* the selections handed to the modal: JPEG files and files of a refused type
ModalSelections ==
    {fl \in FileLists : \A k \in 1..Len(fl) : fl[k].type \in {"image/jpeg", "image/gif"}}

InitModal ==
    /\ modalOpen = FALSE
    /\ modalFiles = <<>>
    /\ modalProgress = 0
    /\ modalStatus = "idle"
    /\ modalError = Null
    /\ modalPc = "idle"
    /\ modalTimer = NoTimer
    /\ modalResp = NoOutcome
    /\ modalDelivered = 0

NextModal ==
    \/ openModal
    \/ \E selectedFiles \in ModalSelections : handleFilesSelect(selectedFiles)
    \/ \E k \in 1..MaxFiles : removeFile(k)
    \/ modalHandleUpload
    \/ \E loaded \in 0..2, total \in Totals : loaded <= total /\ modalOnProgress(loaded, total)
    \/ \E photos \in 0..MaxFiles, errors \in 0..MaxFiles :
          /\ photos + errors <= Len(modalFiles)
          /\ modalResolved(photos, errors)
    \/ \E err \in TransportErrors \cup ApplicationErrors : modalRejected(err)
    \/ modalTimerFired
    \/ handleClose

\* the two upload components share no state: a behaviour exercises one of them
NextUploads ==
    \/ InitModal /\ NextUpload
    \/ InitUpload /\ NextModal

-----------------------------------------------------------------------------
(* EventsPage: the search evaluator over the grouped collection *)

MaxQueryLen == 2      \* longest search query
MaxGroups == 2        \* most groups in a collection
MaxSearchEvents == 2  \* most events in a collection

SearchChars == {"a", "A", " "}

Queries == UNION {[1..n -> SearchChars] : n \in 0..MaxQueryLen}

SearchEvent(id, name, responsible, location, description, event_date) ==
    [id |-> id, name |-> name, responsible |-> responsible, location |-> location,
     description |-> description, event_date |-> event_date]

\* the events of the backend: every searched field is present on one of them
\* and absent (null) on another
SearchEvents ==
    {SearchEvent(1, Str(<<"A">>), NONE, NONE, NONE, NONE),
     SearchEvent(2, Str(<<"b">>), Str(<<"A", "A">>), Str(<<"a", " ">>), NONE, NONE),
     SearchEvent(3, Str(<<"b", "B">>), NONE, NONE, Str(<<"a", "A">>), Str(<<" ", "a">>))}

Category(id, evs) == [id |-> id, events |-> evs]

EventLists == UNION {[1..n -> SearchEvents] : n \in 0..MaxSearchEvents}

RECURSIVE TotalEvents(_)
TotalEvents(cats) ==
    IF cats = <<>> THEN 0 ELSE Len(Head(cats).events) + TotalEvents(Tail(cats))

Collections ==
    UNION {{c \in {[g \in 1..n |-> Category(g, evs[g])] : evs \in [1..n -> EventLists]} :
               TotalEvents(c) <= MaxSearchEvents}
           : n \in 0..MaxGroups}

\* mutant of fieldIncludes: an absent field matches every query
fieldIncludes_absent_matches(field, searchLower) ==
    IF field = NONE THEN TRUE ELSE includes(toLowerCase(field.s), searchLower)

\* field?.toLowerCase().includes(searchLower) ?? false
fieldIncludes(field, searchLower) ==
    IF field = NONE THEN FALSE ELSE includes(toLowerCase(field.s), searchLower)

\* mutant of eventMatchesSearch: the query is compared as typed
eventMatchesSearch_query_as_typed(event, query) ==
    \/ includes(toLowerCase(event.name.s), query)
    \/ fieldIncludes(event.responsible, query)
    \/ fieldIncludes(event.location, query)
    \/ fieldIncludes(event.description, query)
    \/ fieldIncludes(event.event_date, query)

\* eventMatchesSearch
eventMatchesSearch(event, query) ==
    LET searchLower == toLowerCase(query) IN
    \/ includes(toLowerCase(event.name.s), searchLower)
    \/ fieldIncludes(event.responsible, searchLower)
    \/ fieldIncludes(event.location, searchLower)
    \/ fieldIncludes(event.description, searchLower)
    \/ fieldIncludes(event.event_date, searchLower)

\* mutant of filteredCategories: no shortcut for a blank query
filteredCategories_no_shortcut(cats, query) ==
    SelectSeq([k \in 1..Len(cats) |->
                  [cats[k] EXCEPT !.events =
                      SelectSeq(@, LAMBDA event : eventMatchesSearch(event, query))]],
              LAMBDA category : Len(category.events) > 0)

\* mutant of filteredCategories: the groups left without events are kept
filteredCategories_keep_empty(cats, query) ==
    IF strip(query) = <<>>
    THEN cats
    ELSE [k \in 1..Len(cats) |->
             [cats[k] EXCEPT !.events =
                 SelectSeq(@, LAMBDA event : eventMatchesSearch(event, query))]]

\* filteredCategories (the useMemo body)
filteredCategories(cats, query) ==
    IF strip(query) = <<>>
    THEN cats
    ELSE SelectSeq([k \in 1..Len(cats) |->
                       [cats[k] EXCEPT !.events =
                           SelectSeq(@, LAMBDA event : eventMatchesSearch(event, query))]],
                   LAMBDA category : Len(category.events) > 0)

\* loadEvents: setCategories(response.data), and the memo is recomputed
loadEvents ==
    /\ categories' = serverCategories
    /\ shown' = filteredCategories(serverCategories, searchQuery)
    /\ UNCHANGED <<serverCategories, searchQuery, offSearchVars>>

\* setSearchQuery (SearchInput onChange, reset button), and the memo is recomputed
setSearchQuery(value) ==
    /\ searchQuery' = value
    /\ shown' = filteredCategories(categories, value)
    /\ UNCHANGED <<serverCategories, categories, offSearchVars>>

\* the values the search box hands over: one more character, one less, or none
QueryEdits ==
    {Append(searchQuery, c) : c \in {d \in SearchChars : Len(searchQuery) < MaxQueryLen}}
        \cup {SubSeq(searchQuery, 1, Len(searchQuery) - 1)}
        \cup {<<>>}

\* the page before its first load, whatever the backend holds
InitSearch ==
    /\ serverCategories \in Collections
    /\ categories = <<>>
    /\ searchQuery = <<>>
    /\ shown = <<>>

\* the page before its first load over an empty backend
InitSearchIdle ==
    /\ serverCategories = <<>>
    /\ categories = <<>>
    /\ searchQuery = <<>>
    /\ shown = <<>>

NextSearch ==
    \/ loadEvents
    \/ \E value \in QueryEdits : setSearchQuery(value)

-----------------------------------------------------------------------------
(* API client: the axios instance with its response interceptor *)

UrlAuthLogin == <<"/", "a", "u", "t", "h", "/", "l", "o", "g", "i", "n">>
UrlAuthAdminLogin == <<"/", "a", "u", "t", "h", "/", "a", "d", "m", "i", "n", "/", "l", "o", "g", "i", "n">>
UrlAuthCheck == <<"/", "a", "u", "t", "h", "/", "c", "h", "e", "c", "k">>
UrlEvents == <<"/", "e", "v", "e", "n", "t", "s">>
UrlAdminLogin == <<"/", "a", "d", "m", "i", "n", "/", "l", "o", "g", "i", "n">>
UrlProxiedLogin == <<"/", "p", "r", "o", "x", "y", "/", "a", "u", "t", "h", "/", "l", "o", "g", "i", "n">>
UrlLoginSlash == <<"/", "a", "u", "t", "h", "/", "l", "o", "g", "i", "n", "/">>

\* error.config?.url of a failed request: a path, the empty string or nothing
RequestUrls ==
    {UrlAuthLogin, UrlAuthAdminLogin, UrlAuthCheck, UrlEvents, UrlAdminLogin,
     UrlProxiedLogin, UrlLoginSlash, <<>>, Undefined}

\* error.response?.status: 0 stands for a failure without a response
Statuses == {0, 400, 401, 403, 404, 500}

NoToken == "null"
Tokens == {"user-token", "admin-token"}

\* String.prototype.endsWith
endsWith(s, suffix) ==
    /\ Len(s) >= Len(suffix)
    /\ SubSeq(s, Len(s) - Len(suffix) + 1, Len(s)) = suffix

\* mutant of isLoginEndpoint: the administrator login is not a login endpoint
isLoginEndpoint_user_only(url) ==
    IF url = Undefined \/ url = <<>> THEN FALSE
    ELSE endsWith(url, UrlAuthLogin)

\* isLoginEndpoint
isLoginEndpoint(url) ==
    IF url = Undefined \/ url = <<>> THEN FALSE
    ELSE endsWith(url, UrlAuthLogin) \/ endsWith(url, UrlAuthAdminLogin)

\* shouldLogoutOn401
shouldLogoutOn401(url) == ~isLoginEndpoint(url)

Response(kind, status, url) ==
    [kind |-> kind, status |-> status, url |-> url, token |-> token, href |-> href]

NoResponse == [kind |-> "none", status |-> 0, url |-> Undefined, token |-> NoToken,
               href |-> "/login"]

\* handleSubmit of a login form: the login request resolves, the token is stored
loginResolved(url, t, page) ==
    /\ token' = t
    /\ href' = page
    /\ authLast' = Response("ok", 200, url)
    /\ UNCHANGED offClientVars

\* response interceptor, first handler: (response) => response
responseOk(url) ==
    /\ authLast' = Response("ok", 200, url)
    /\ UNCHANGED <<token, href, offClientVars>>

\* response interceptor, error handler
responseError(status, url) ==
    /\ IF status = 401 /\ shouldLogoutOn401(url)
       THEN /\ token' = NoToken
            /\ href' = "/view"
       ELSE UNCHANGED <<token, href>>
    /\ authLast' = Response("error", status, url)
    /\ UNCHANGED offClientVars

\* AdminPage handleLogout
handleLogout ==
    /\ token' = NoToken
    /\ href' = "/login"
    /\ authLast' = NoResponse
    /\ UNCHANGED offClientVars

InitClient ==
    /\ token = NoToken
    /\ href = "/login"
    /\ authLast = NoResponse

NextClient ==
    \/ loginResolved(UrlAuthLogin, "user-token", "/events")
    \/ loginResolved(UrlAuthAdminLogin, "admin-token", "/admin/panel")
    \/ \E url \in RequestUrls \ {UrlAuthLogin, UrlAuthAdminLogin} : responseOk(url)
    \/ \E status \in Statuses, url \in RequestUrls : responseError(status, url)
    \/ handleLogout

-----------------------------------------------------------------------------
(* AdminPage: deleting a category *)

MaxCategories == 2   \* number of category ids

CategoryIds == 1..MaxCategories

\* the categories of the backend at the start: every second one holds an event
ServerCategory(id) == [exists |-> TRUE, events |-> id % 2]
Deleted == [exists |-> FALSE, events |-> 0]

\* GET /admin/events: the existing categories in id order
RECURSIVE getAllEvents(_, _)
getAllEvents(server, id) ==
    IF id > MaxCategories THEN <<>>
    ELSE (IF server[id].exists THEN <<[id |-> id, events |-> server[id].events]>> ELSE <<>>)
             \o getAllEvents(server, id + 1)

\* a confirmation prompt: the category, the answer, and what was displayed and
\* sent when it was shown
Prompt(id, accepted) ==
    [id |-> id, accepted |-> accepted, categories |-> adminCategories,
     requests |-> deleteRequests, server |-> adminServer]

NoPrompt ==
    [id |-> 0, accepted |-> FALSE, categories |-> <<>>, requests |-> {},
     server |-> [id \in CategoryIds |-> Deleted]]

\* mutant of handleDeleteCategory: the request is sent whatever the answer
handleDeleteCategory_no_confirm(id, accepted) ==
    /\ adminPc = "idle"
    /\ \E k \in 1..Len(adminCategories) : adminCategories[k].id = id
    /\ adminLast' = Prompt(id, accepted)
    /\ adminPc' = "deleting"
    /\ adminTarget' = id
    /\ deleteRequests' = deleteRequests \cup {id}
    /\ acceptedPrompts' = IF accepted THEN acceptedPrompts \cup {id} ELSE acceptedPrompts
    /\ UNCHANGED <<adminServer, adminCategories, adminError, offAdminVars>>

\* handleDeleteCategory up to its first await: confirm(), then the delete request
handleDeleteCategory(id, accepted) ==
    /\ adminPc = "idle"
    /\ \E k \in 1..Len(adminCategories) : adminCategories[k].id = id
    /\ adminLast' = Prompt(id, accepted)
    /\ IF ~accepted
       THEN UNCHANGED <<adminPc, adminTarget, deleteRequests, acceptedPrompts>>
       ELSE /\ adminPc' = "deleting"
            /\ adminTarget' = id
            /\ deleteRequests' = deleteRequests \cup {id}
            /\ acceptedPrompts' = acceptedPrompts \cup {id}
    /\ UNCHANGED <<adminServer, adminCategories, adminError, offAdminVars>>

\* DELETE /admin/categories/{id} succeeds: the category goes with its events;
\* handleDeleteCategory goes on to loadData
deleteCategoryResolved ==
    /\ adminPc = "deleting"
    /\ adminServer[adminTarget].exists
    /\ adminServer' = [adminServer EXCEPT ![adminTarget] = Deleted]
    /\ adminPc' = "loading"
    /\ UNCHANGED <<adminCategories, adminTarget, adminError, deleteRequests,
                   acceptedPrompts, adminLast, offAdminVars>>

\* the delete request fails (no such category, no connection): the catch block
deleteCategoryRejected ==
    /\ adminPc = "deleting"
    /\ adminError' = "delete"
    /\ adminPc' = "idle"
    /\ UNCHANGED <<adminServer, adminCategories, adminTarget, deleteRequests,
                   acceptedPrompts, adminLast, offAdminVars>>

\* loadData: getAllEvents resolves, setCategories(response.data)
loadDataResolved ==
    /\ adminPc = "loading"
    /\ adminCategories' = getAllEvents(adminServer, 1)
    /\ adminPc' = "idle"
    /\ UNCHANGED <<adminServer, adminTarget, adminError, deleteRequests,
                   acceptedPrompts, adminLast, offAdminVars>>

\* loadData: getAllEvents fails, the error is set inside loadData
loadDataRejected ==
    /\ adminPc = "loading"
    /\ adminError' = "load"
    /\ adminPc' = "idle"
    /\ UNCHANGED <<adminServer, adminCategories, adminTarget, deleteRequests,
                   acceptedPrompts, adminLast, offAdminVars>>

\* the page after its first loadData
InitAdmin ==
    /\ adminServer = [id \in CategoryIds |-> ServerCategory(id)]
    /\ adminCategories = getAllEvents([id \in CategoryIds |-> ServerCategory(id)], 1)
    /\ adminPc = "idle"
    /\ adminTarget = 0
    /\ adminError = "null"
    /\ deleteRequests = {}
    /\ acceptedPrompts = {}
    /\ adminLast = NoPrompt

NextAdmin ==
    \/ \E id \in CategoryIds, accepted \in BOOLEAN : handleDeleteCategory(id, accepted)
    \/ deleteCategoryResolved
    \/ deleteCategoryRejected
    \/ loadDataResolved
    \/ loadDataRejected

-----------------------------------------------------------------------------
(* SearchInput: the debounced search box of the events page.  Time is        *)
(* counted in steps of TickMs; a timer that is due runs before time moves on *)
(* and before any later event is handled.                                    *)

debounceMs == 300   \* the default of the debounceMs prop
TickMs == 100       \* one step of the clock

InputChars == {"a", "b"}

NoTimeout == [pending |-> FALSE, value |-> <<>>, left |-> 0]
Timeout(value, ms) == [pending |-> TRUE, value |-> value, left |-> ms]

TimerDue == debounceRef.pending /\ debounceRef.left = 0

NoBurst ==
    [active |-> FALSE, value |-> <<>>, several |-> FALSE, clear |-> FALSE,
     timerCalls |-> 0, calls |-> 0, firedValue |-> <<>>, firedAfter |-> 0]

\* a keystroke less than debounceMs after the one before it belongs to the same burst
KeyInBurst(newValue) ==
    IF burst.active /\ sinceKey < debounceMs
    THEN [burst EXCEPT !.value = newValue, !.several = TRUE]
    ELSE [NoBurst EXCEPT !.active = TRUE, !.value = newValue]

AtMost2(n) == IF n > 2 THEN 2 ELSE n

\* the parent's onChange (setSearchQuery), the memo, and the value sync effect
\* of SearchInput, which runs when the value prop has changed
parentOnChange(value) ==
    /\ searchQuery' = value
    /\ shown' = filteredCategories(categories, value)
    /\ UNCHANGED <<serverCategories, categories>>

\* mutant of debouncedOnChange: a pending timer keeps its deadline
debouncedOnChange_keep_deadline(newValue) ==
    IF debounceRef.pending
    THEN Timeout(newValue, debounceRef.left)
    ELSE Timeout(newValue, debounceMs)

\* debouncedOnChange: clearTimeout of the pending timer, then a new setTimeout
debouncedOnChange(newValue) == Timeout(newValue, debounceMs)

\* handleChange: a keystroke that leaves newValue in the field
handleChange(newValue) ==
    /\ ~TimerDue
    /\ localValue' = newValue
    /\ debounceRef' = debouncedOnChange(newValue)
    /\ sinceKey' = 0
    /\ burst' = KeyInBurst(newValue)
    /\ cleared' = FALSE
    /\ UNCHANGED <<searchVars, offInputVars>>

\* the setTimeout callback of debouncedOnChange: onChange(newValue)
debounceFired ==
    /\ TimerDue
    /\ parentOnChange(debounceRef.value)
    /\ localValue' = IF debounceRef.value # searchQuery THEN debounceRef.value ELSE localValue
    /\ debounceRef' = NoTimeout
    /\ burst' = [burst EXCEPT !.timerCalls = AtMost2(@ + 1), !.calls = AtMost2(@ + 1),
                              !.firedValue = debounceRef.value, !.firedAfter = sinceKey]
    /\ UNCHANGED <<sinceKey, cleared, offInputVars>>

\* handleClear: the clear button is rendered while localValue is not empty
handleClear ==
    /\ ~TimerDue
    /\ localValue # <<>>
    /\ localValue' = <<>>
    /\ parentOnChange(<<>>)
    /\ burst' = [burst EXCEPT !.calls = AtMost2(@ + 1), !.clear = TRUE]
    /\ cleared' = TRUE
    /\ UNCHANGED <<debounceRef, sinceKey, offInputVars>>

\* the reset button of the empty result: setSearchQuery('') in the parent
resetSearch ==
    /\ ~TimerDue
    /\ searchQuery # <<>>
    /\ Len(shown) = 0
    /\ parentOnChange(<<>>)
    /\ localValue' = <<>>
    /\ UNCHANGED <<debounceRef, sinceKey, burst, cleared, offInputVars>>

\* TickMs pass
tick ==
    /\ ~TimerDue
    /\ debounceRef.pending \/ sinceKey < debounceMs
    /\ sinceKey' = IF sinceKey + TickMs > debounceMs THEN debounceMs ELSE sinceKey + TickMs
    /\ debounceRef' = IF debounceRef.pending
                      THEN [debounceRef EXCEPT !.left = @ - TickMs]
                      ELSE debounceRef
    /\ UNCHANGED <<localValue, burst, cleared, searchVars, offInputVars>>

\* the page is left and opened again: the clean-up effect clears the timer,
\* the state of the page and of the search box starts afresh
unmountPage ==
    /\ localValue' = <<>>
    /\ debounceRef' = NoTimeout
    /\ sinceKey' = debounceMs
    /\ burst' = NoBurst
    /\ cleared' = FALSE
    /\ searchQuery' = <<>>
    /\ categories' = <<>>
    /\ shown' = <<>>
    /\ UNCHANGED <<serverCategories, offInputVars>>

\* the values a keystroke can leave in the field: one more character or one less
InputEdits ==
    {Append(localValue, c) : c \in {d \in InputChars : Len(localValue) < MaxQueryLen}}
        \cup (IF localValue # <<>> THEN {SubSeq(localValue, 1, Len(localValue) - 1)} ELSE {})

InitInput ==
    /\ localValue = <<>>
    /\ debounceRef = NoTimeout
    /\ sinceKey = debounceMs
    /\ burst = NoBurst
    /\ cleared = FALSE

NextInput ==
    \/ \E newValue \in InputEdits : handleChange(newValue)
    \/ debounceFired
    \/ handleClear
    \/ resetSearch
    \/ tick
    \/ unmountPage

-----------------------------------------------------------------------------
(* PhotoUploader with overlapping invocations: handleDrop and handleFileChange *)
(* call handleUpload whether or not an earlier call is still running.         *)

MaxTimers == 1   \* pending clean-up timers beyond which no new selection is made

\* the selections made while another invocation may be running: one file
OverlapSelections == {fl \in FileLists : Len(fl) = 1}

OverlapErrors ==
    {AxiosError("ERR_NETWORK", MsgNetworkError, FALSE),
     AxiosError("ERR_BAD_REQUEST", MsgStatus400, TRUE)}

NextOverlap ==
    \/ \E i \in Invs, fl \in OverlapSelections : cleanup <= MaxTimers /\ handleUpload(i, fl)
    \/ \E i \in Invs, loaded \in 0..2, total \in Totals :
          loaded <= total /\ onProgress(i, loaded, total)
    \/ \E i \in Invs, photos \in 0..1, errors \in 0..1 :
          /\ photos + errors <= Len(valid[i])
          /\ uploadResolved(i, photos, errors)
    \/ \E i \in Invs, err \in OverlapErrors : uploadRejected(i, err)
    \/ \E i \in Invs : delayElapsed(i)
    \/ clearSuccessUploads

-----------------------------------------------------------------------------
(* EventsPage.handleUpdateDescription: PATCH {description}, and on success the *)
(* argument of the call is written into the cached event.  Up to two calls for *)
(* the same event are in flight at a time.                                     *)

Slots == {1, 2}

\* the descriptions handed to handleUpdateDescription
DescValues == {NONE} \cup {Str(s) : s \in {<<>>, <<" ">>, <<"a">>, <<"a", " ">>, <<" ", "a">>}}

NoCall == [state |-> "idle", description |-> NONE, first |-> FALSE]

AllIdle == \A slot \in Slots : descCalls[slot].state = "idle"

\* eventsApi.updateDescription: the body always holds the key description
DescriptionPayload(description) == [keys |-> {"description"}, description |-> description]

\* handleUpdateDescription up to its await: the request is sent
handleUpdateDescription(slot, description) ==
    /\ descCalls[slot].state = "idle"
    /\ AllIdle \/ descArrivals = <<>>
    /\ descCalls' = [descCalls EXCEPT ![slot] =
                        [state |-> "sent", description |-> description, first |-> AllIdle]]
    /\ descArrivals' = <<>>
    /\ UNCHANGED <<descStored, descCached, offDescVars>>

\* the backend handles the PATCH of the existing event and answers 200
descriptionPatched(slot) ==
    /\ descCalls[slot].state = "sent"
    /\ LET event_update == EventPublicUpdate(DescriptionPayload(descCalls[slot].description))
       IN  /\ event_update.ok
           /\ descStored' = update_event_description(Event(descStored), event_update).description
    /\ descCalls' = [descCalls EXCEPT ![slot].state = "answered"]
    /\ UNCHANGED <<descCached, descArrivals, offDescVars>>

\* mutant of updateDescriptionResolved: the first response of a race is kept
updateDescriptionResolved_first_wins(slot) ==
    /\ descCalls[slot].state = "answered"
    /\ descCached' = IF descArrivals = <<>> THEN descCalls[slot].description ELSE descCached
    /\ descArrivals' = Append(descArrivals, descCalls[slot])
    /\ descCalls' = [descCalls EXCEPT ![slot].state = "idle"]
    /\ UNCHANGED <<descStored, offDescVars>>

\* the await resolves: setCategories writes the argument into the cached event
updateDescriptionResolved(slot) ==
    /\ descCalls[slot].state = "answered"
    /\ descCached' = descCalls[slot].description
    /\ descArrivals' = Append(descArrivals, descCalls[slot])
    /\ descCalls' = [descCalls EXCEPT ![slot].state = "idle"]
    /\ UNCHANGED <<descStored, offDescVars>>

\* the await rejects (no answer, or the answer is lost): the call throws, the
\* cache is left alone
updateDescriptionRejected(slot) ==
    /\ descCalls[slot].state \in {"sent", "answered"}
    /\ descCalls' = [descCalls EXCEPT ![slot].state = "idle"]
    /\ UNCHANGED <<descStored, descCached, descArrivals, offDescVars>>

InitDesc ==
    /\ descStored = NONE
    /\ descCached = NONE
    /\ descCalls = [slot \in Slots |-> NoCall]
    /\ descArrivals = <<>>

NextDesc ==
    \/ \E slot \in Slots, description \in DescValues : handleUpdateDescription(slot, description)
    \/ \E slot \in Slots : descriptionPatched(slot)
    \/ \E slot \in Slots : updateDescriptionResolved(slot)
    \/ \E slot \in Slots : updateDescriptionRejected(slot)

-----------------------------------------------------------------------------
(* The two description editors: EditableDescription (saves on blur) and     *)
(* DescriptionEditorModal (opened by DescriptionCell, saves on its button). *)
(* onSave is the page's handleUpdateDescription: on success the page writes *)
(* newValue into the cached event, which comes back as the value prop.      *)

\* the texts typed into an editor
EditorTexts == {s \in Texts : Len(s) <= 2}

\* the user-facing message of DescriptionEditorModal (in Russian in the source)
MsgSaveFailed == <<"Could not save. Try again.">>

\* value || ''
orEmpty(value) == IF value = NONE THEN <<>> ELSE value.s

\* trimmedText || null
orNull(trimmedText) == IF trimmedText = <<>> THEN NONE ELSE Str(trimmedText)

SaveOutcome(outcome, typed) == [outcome |-> outcome, typed |-> typed]
NoSave == SaveOutcome("none", <<>>)

\* the row renders one of the two editors for the cached description
renderEditor(kind) ==
    /\ edKind = "none"
    /\ edKind' = kind
    /\ edText' = orEmpty(edValue)
    /\ edOriginal' = orEmpty(edValue)
    /\ UNCHANGED <<edValue, edOpen, edSaving, edSaved, edError, edPc, edSent, edTimer,
                   edLast, offEditorVars>>

\* onChange of the textarea (disabled while saving): setText(e.target.value)
setText(value) ==
    /\ edKind # "none"
    /\ edKind = "modal" => edOpen
    /\ ~edSaving
    /\ edText' = value
    /\ edLast' = NoSave
    /\ UNCHANGED <<edKind, edValue, edOpen, edSaving, edSaved, edError, edOriginal, edPc,
                   edSent, edTimer, offEditorVars>>

\* EditableDescription.handleBlur up to its await
handleBlur ==
    /\ edKind = "inline"
    /\ ~edSaving
    /\ LET trimmedText == strip(edText) IN
       IF trimmedText = edOriginal
       THEN UNCHANGED <<edSaving, edPc, edSent, edLast>>
       ELSE /\ edSaving' = TRUE
            /\ edPc' = "await"
            /\ edSent' = orNull(trimmedText)
            /\ edLast' = SaveOutcome("running", edText)
    /\ UNCHANGED <<edKind, edValue, edOpen, edText, edSaved, edError, edOriginal, edTimer,
                   offEditorVars>>

\* EditableDescription: onSave resolves; the page has written newValue into
\* the cache, and the value effect runs when the prop has changed
blurResolved ==
    /\ edKind = "inline"
    /\ edPc = "await"
    /\ edValue' = edSent
    /\ edText' = IF edSent # edValue THEN orEmpty(edSent) ELSE edText
    /\ edOriginal' = IF edSent # edValue THEN orEmpty(edSent) ELSE strip(edText)
    /\ edSaved' = TRUE
    /\ edTimer' = TRUE
    /\ edSaving' = FALSE
    /\ edPc' = "idle"
    /\ edLast' = [edLast EXCEPT !.outcome = "saved"]
    /\ UNCHANGED <<edKind, edOpen, edError, edSent, offEditorVars>>

\* EditableDescription: onSave rejects; the catch block restores the old value
blurRejected ==
    /\ edKind = "inline"
    /\ edPc = "await"
    /\ edText' = edOriginal
    /\ edSaving' = FALSE
    /\ edPc' = "idle"
    /\ edLast' = [edLast EXCEPT !.outcome = "failed"]
    /\ UNCHANGED <<edKind, edValue, edOpen, edSaved, edError, edOriginal, edSent, edTimer,
                   offEditorVars>>

\* DescriptionCell.handleOpenModal, and the reset effect of the modal
handleOpenModal ==
    /\ edKind = "modal"
    /\ ~edOpen
    /\ edPc = "idle"
    /\ ~edTimer
    /\ edOpen' = TRUE
    /\ edText' = orEmpty(edValue)
    /\ edOriginal' = orEmpty(edValue)
    /\ edSaving' = FALSE
    /\ edSaved' = FALSE
    /\ edError' = Null
    /\ edLast' = NoSave
    /\ UNCHANGED <<edKind, edValue, edPc, edSent, edTimer, offEditorVars>>

\* DescriptionEditorModal.handleSave up to its await (button, Ctrl+Enter)
handleSave ==
    /\ edKind = "modal"
    /\ edOpen
    /\ ~edSaving
    /\ LET trimmedText == strip(edText) IN
       IF trimmedText = edOriginal
       THEN /\ edOpen' = FALSE
            /\ UNCHANGED <<edSaving, edError, edPc, edSent, edLast>>
       ELSE /\ edSaving' = TRUE
            /\ edError' = Null
            /\ edPc' = "await"
            /\ edSent' = orNull(trimmedText)
            /\ edLast' = SaveOutcome("running", edText)
            /\ UNCHANGED edOpen
    /\ UNCHANGED <<edKind, edValue, edText, edSaved, edOriginal, edTimer, offEditorVars>>

\* DescriptionEditorModal: onSave resolves; the page has written newValue into
\* the cache, the reset effect runs when initialValue has changed, and the
\* 500 ms timer is set
saveResolved ==
    /\ edKind = "modal"
    /\ edPc = "await"
    /\ edValue' = edSent
    /\ IF edSent # edValue
       THEN /\ edText' = orEmpty(edSent)
            /\ edOriginal' = orEmpty(edSent)
            /\ edSaving' = FALSE
            /\ edSaved' = FALSE
       ELSE /\ edOriginal' = strip(edText)
            /\ edSaved' = TRUE
            /\ UNCHANGED <<edText, edSaving>>
    /\ edTimer' = TRUE
    /\ edPc' = "idle"
    /\ edLast' = [edLast EXCEPT !.outcome = "saved"]
    /\ UNCHANGED <<edKind, edOpen, edError, edSent, offEditorVars>>

\* DescriptionEditorModal: onSave rejects; the catch block
saveRejected ==
    /\ edKind = "modal"
    /\ edPc = "await"
    /\ edError' = MsgSaveFailed
    /\ edSaving' = FALSE
    /\ edPc' = "idle"
    /\ edLast' = [edLast EXCEPT !.outcome = "failed"]
    /\ UNCHANGED <<edKind, edValue, edOpen, edText, edSaved, edOriginal, edSent, edTimer,
                   offEditorVars>>

\* handleCancel, handleOverlayClick, Escape: onClose unless saving
handleCancel ==
    /\ edKind = "modal"
    /\ edOpen
    /\ ~edSaving
    /\ edOpen' = FALSE
    /\ edLast' = NoSave
    /\ UNCHANGED <<edKind, edValue, edText, edSaving, edSaved, edError, edOriginal, edPc,
                   edSent, edTimer, offEditorVars>>

\* the timer set after a successful save: the modal closes (500 ms), the
\* inline editor hides its saved mark (2 s)
savedTimerFired ==
    /\ edTimer
    /\ edTimer' = FALSE
    /\ IF edKind = "modal"
       THEN edOpen' = FALSE /\ UNCHANGED edSaved
       ELSE edSaved' = FALSE /\ UNCHANGED edOpen
    /\ UNCHANGED <<edKind, edValue, edText, edSaving, edError, edOriginal, edPc, edSent,
                   edLast, offEditorVars>>

InitEditor ==
    /\ edKind = "none"
    /\ edValue = NONE
    /\ edOpen = FALSE
    /\ edText = <<>>
    /\ edSaving = FALSE
    /\ edSaved = FALSE
    /\ edError = Null
    /\ edOriginal = <<>>
    /\ edPc = "idle"
    /\ edSent = NONE
    /\ edTimer = FALSE
    /\ edLast = NoSave

NextEditor ==
    \/ \E kind \in {"inline", "modal"} : renderEditor(kind)
    \/ \E value \in EditorTexts : setText(value)
    \/ handleBlur
    \/ blurResolved
    \/ blurRejected
    \/ handleOpenModal
    \/ handleSave
    \/ saveResolved
    \/ saveRejected
    \/ handleCancel
    \/ savedTimerFired

-----------------------------------------------------------------------------
(* The events pages (EventsPage, PublicViewPage): loadEvents(month) runs on  *)
(* every change of selectedMonth and from the retry button; the list the     *)
(* backend returns for a month is named by that month.                       *)

MaxMonth == 3    \* the months of the model are 0 (the whole year) to MaxMonth

Months == 0..MaxMonth

\* the categories state before the first response: the empty list
NothingLoaded == -1

MsgLoadFailed == <<"Could not load the events">>

\* loadEvents(month) up to its await
loadEventsStart(month) ==
    /\ month \notin loadsInFlight
    /\ loading' = TRUE
    /\ loadError' = Null
    /\ loadsInFlight' = loadsInFlight \cup {month}

\* MonthTabs onMonthChange={setSelectedMonth}, and the effect on selectedMonth
setSelectedMonth(month) ==
    /\ month # selectedMonth
    /\ selectedMonth' = month
    /\ loadEventsStart(month)
    /\ UNCHANGED <<monthShown, offLoadVars>>

\* the retry button of the error message: loadEvents(selectedMonth)
retryLoad ==
    /\ loadError # Null
    /\ loadEventsStart(selectedMonth)
    /\ UNCHANGED <<selectedMonth, monthShown, offLoadVars>>

\* the await of loadEvents(month) resolves: setCategories(response.data), finally
loadEventsResolved(month) ==
    /\ month \in loadsInFlight
    /\ monthShown' = month
    /\ loading' = FALSE
    /\ loadsInFlight' = loadsInFlight \ {month}
    /\ UNCHANGED <<selectedMonth, loadError, offLoadVars>>

\* the await of loadEvents(month) rejects: catch, finally
loadEventsRejected(month) ==
    /\ month \in loadsInFlight
    /\ loadError' = MsgLoadFailed
    /\ loading' = FALSE
    /\ loadsInFlight' = loadsInFlight \ {month}
    /\ UNCHANGED <<selectedMonth, monthShown, offLoadVars>>

\* the page after its first render: the effect has called loadEvents(selectedMonth)
InitLoad ==
    /\ selectedMonth = 1
    /\ monthShown = NothingLoaded
    /\ loading = TRUE
    /\ loadError = Null
    /\ loadsInFlight = {1}

NextLoad ==
    \/ \E month \in Months : setSelectedMonth(month)
    \/ retryLoad
    \/ \E month \in Months : loadEventsResolved(month)
    \/ \E month \in Months : loadEventsRejected(month)

-----------------------------------------------------------------------------
(* Photo lightbox of one event: EventCard / EventRow and Lightbox *)

MaxPhotos == 3
PhotoIds == 1..MaxPhotos
\* null in lightboxIndex and in deletePhotoTarget
NoIndex == -1
NoPhoto == 0

\* the lightbox is rendered: lightboxIndex !== null && event.photos.length > 0
LightboxOpen == lightboxIndex # NoIndex /\ Len(eventPhotos) > 0

\* Lightbox: photos[currentIndex] (0-based), undefined past the end
HasCurrentPhoto == LightboxOpen /\ lightboxIndex \in 0..(Len(eventPhotos) - 1)
hasPrev == lightboxIndex > 0
hasNext == lightboxIndex < Len(eventPhotos) - 1

\* event.photos.filter(p => p.id !== photoId)
RECURSIVE withoutPhoto(_, _)
withoutPhoto(ps, photoId) ==
    IF ps = <<>> THEN <<>>
    ELSE IF Head(ps) = photoId THEN withoutPhoto(Tail(ps), photoId)
         ELSE <<Head(ps)>> \o withoutPhoto(Tail(ps), photoId)

\* click on the gallery preview: setLightboxIndex(0)
openLightbox ==
    /\ Len(eventPhotos) > 0
    /\ lightboxIndex = NoIndex
    /\ lightboxIndex' = 0
    /\ UNCHANGED <<eventPhotos, deletePhotoTarget, deletesInFlight>>
    /\ UNCHANGED offLightboxVars

\* onClose: setLightboxIndex(null)
closeLightbox ==
    /\ LightboxOpen
    /\ lightboxIndex' = NoIndex
    /\ UNCHANGED <<eventPhotos, deletePhotoTarget, deletesInFlight>>
    /\ UNCHANGED offLightboxVars

\* the keydown listener is on the document: it works while the lightbox is
\* rendered, an open confirmation included
handlePrev ==
    /\ LightboxOpen
    /\ hasPrev
    /\ lightboxIndex' = lightboxIndex - 1
    /\ UNCHANGED <<eventPhotos, deletePhotoTarget, deletesInFlight>>
    /\ UNCHANGED offLightboxVars

handleNext ==
    /\ LightboxOpen
    /\ hasNext
    /\ lightboxIndex' = lightboxIndex + 1
    /\ UNCHANGED <<eventPhotos, deletePhotoTarget, deletesInFlight>>
    /\ UNCHANGED offLightboxVars

\* onDelete={(photo) => setDeletePhotoTarget(photo)}: the lightbox asks to
\* delete the photo it shows
onDelete ==
    /\ HasCurrentPhoto
    /\ deletePhotoTarget' = eventPhotos[lightboxIndex + 1]
    /\ UNCHANGED <<eventPhotos, lightboxIndex, deletesInFlight>>
    /\ UNCHANGED offLightboxVars

\* the index after a confirmed deletion, from the photos of this render
indexAfterConfirm ==
    IF Len(eventPhotos) <= 1 THEN NoIndex
    ELSE IF lightboxIndex # NoIndex /\ lightboxIndex >= Len(eventPhotos) - 1
         THEN Len(eventPhotos) - 2
         ELSE lightboxIndex

\* ConfirmDialog onConfirm: the delete request is started and not awaited
confirmDeletePhoto ==
    /\ deletePhotoTarget # NoPhoto
    /\ deletesInFlight' = deletesInFlight \cup {deletePhotoTarget}
    /\ lightboxIndex' = indexAfterConfirm
    /\ deletePhotoTarget' = NoPhoto
    /\ UNCHANGED eventPhotos
    /\ UNCHANGED offLightboxVars

\* ConfirmDialog onCancel
cancelDeletePhoto ==
    /\ deletePhotoTarget # NoPhoto
    /\ deletePhotoTarget' = NoPhoto
    /\ UNCHANGED <<eventPhotos, lightboxIndex, deletesInFlight>>
    /\ UNCHANGED offLightboxVars

\* handleDeletePhoto after the await: the photo leaves event.photos
deletePhotoResolved(photoId) ==
    /\ photoId \in deletesInFlight
    /\ deletesInFlight' = deletesInFlight \ {photoId}
    /\ eventPhotos' = withoutPhoto(eventPhotos, photoId)
    /\ UNCHANGED <<lightboxIndex, deletePhotoTarget>>
    /\ UNCHANGED offLightboxVars

\* the request fails: handleDeletePhoto throws before setCategories
deletePhotoRejected(photoId) ==
    /\ photoId \in deletesInFlight
    /\ deletesInFlight' = deletesInFlight \ {photoId}
    /\ UNCHANGED <<eventPhotos, lightboxIndex, deletePhotoTarget>>
    /\ UNCHANGED offLightboxVars

InitLightbox ==
    /\ eventPhotos = [k \in PhotoIds |-> k]
    /\ lightboxIndex = NoIndex
    /\ deletePhotoTarget = NoPhoto
    /\ deletesInFlight = {}

NextLightbox ==
    \/ openLightbox
    \/ closeLightbox
    \/ handlePrev
    \/ handleNext
    \/ onDelete
    \/ confirmDeletePhoto
    \/ cancelDeletePhoto
    \/ \E photoId \in PhotoIds : deletePhotoResolved(photoId)
    \/ \E photoId \in PhotoIds : deletePhotoRejected(photoId)

-----------------------------------------------------------------------------
(* Route table (App) and the authentication redirects of the pages *)

Closed == "closed"
\* the five paths of the route table and one path only "*" matches
Paths == {"/view", "/events", "/admin", "/login", "/admin/panel", "/other"}

\* <Routes>: the element rendered for a path
Element(path) ==
    CASE path = "/view"   -> "PublicViewPage"
      [] path = "/events" -> "EventsPage"
      [] path = "/admin"  -> "AdminPage"
      [] OTHER            -> "Navigate"

\* the target of the <Navigate replace> elements
RedirectTo(path) ==
    CASE path = "/login"       -> "/events"
      [] path = "/admin/panel" -> "/admin"
      [] OTHER                 -> "/view"

\* pages that call useAuth() (requireAuth defaults to true)
UsesAuth(el) == el \in {"EventsPage", "AdminPage"}

NoNav == [by |-> "none", to |-> Closed, replace |-> FALSE]
NoEntry == [path |-> Closed, token |-> NoToken]

\* the router commits a location; the element of another route is mounted afresh
\* (useState initial values, effects due) and the one it replaces is unmounted
\* with the state updates of the same effect or callback; a navigation to the
\* route already shown keeps the element and its state
navigate(to, by, replace) ==
    /\ pathname' = to
    /\ lastNav' = [by |-> by, to |-> to, replace |-> replace]
    /\ mounted' = Element(to)
    /\ IF Element(to) = mounted
       THEN /\ adminEffect' = FALSE
            /\ UNCHANGED <<isAuthenticated, isAdmin, authEffect>>
       ELSE /\ isAuthenticated' = "null"
            /\ isAdmin' = FALSE
            /\ authEffect' = IF UsesAuth(Element(to)) THEN "pending" ELSE "none"
            /\ adminEffect' = (Element(to) = "AdminPage")

\* the visitor opens an address of the application in the browser
openUrl(path, t) ==
    /\ pathname = Closed
    /\ storedToken' = t
    /\ entered' = [path |-> path, token |-> t]
    /\ navigate(path, "visitor", FALSE)
    /\ UNCHANGED offRouteVars

\* useAuth's effect, run once after the page is mounted
useAuthEffect ==
    /\ UsesAuth(mounted)
    /\ authEffect = "pending"
    /\ IF storedToken = NoToken
       THEN \* setIsAuthenticated(false); if (requireAuth) navigate('/login')
            navigate("/login", "useAuth", FALSE)
       ELSE /\ authEffect' = "checking"
            /\ UNCHANGED <<pathname, mounted, isAuthenticated, isAdmin, adminEffect, lastNav>>
    /\ UNCHANGED <<storedToken, entered>>
    /\ UNCHANGED offRouteVars

\* authApi.check() resolves with res.data = {valid, is_admin}
authCheckResolved(isValid) ==
    /\ authEffect = "checking"
    /\ IF isValid
       THEN /\ isAuthenticated' = "true"
            /\ isAdmin' = (storedToken = "admin-token")
            /\ authEffect' = "done"
            /\ adminEffect' = (mounted = "AdminPage")
            /\ UNCHANGED <<pathname, mounted, lastNav>>
       ELSE navigate("/login", "useAuth", FALSE)
    /\ UNCHANGED <<storedToken, entered>>
    /\ UNCHANGED offRouteVars

\* authApi.check() rejects
authCheckRejected ==
    /\ authEffect = "checking"
    /\ navigate("/login", "useAuth", FALSE)
    /\ UNCHANGED <<storedToken, entered>>
    /\ UNCHANGED offRouteVars

\* AdminPage's effect on [isAuthenticated, isAdmin]
adminPageEffect ==
    /\ mounted = "AdminPage"
    /\ adminEffect
    /\ IF isAuthenticated = "false"
       THEN navigate("/admin", "AdminPage", FALSE)
       ELSE IF isAuthenticated = "true" /\ ~isAdmin
       THEN navigate("/events", "AdminPage", FALSE)
       ELSE \* administrator: loadData(); not yet known: nothing
            /\ adminEffect' = FALSE
            /\ UNCHANGED <<pathname, mounted, isAuthenticated, isAdmin, authEffect, lastNav>>
    /\ UNCHANGED <<storedToken, entered>>
    /\ UNCHANGED offRouteVars

\* AdminPage handleLogout: the rendered panel's logout button
adminLogout ==
    /\ mounted = "AdminPage"
    /\ isAuthenticated # "null"
    /\ ~adminEffect
    /\ storedToken' = NoToken
    /\ navigate("/login", "AdminPage", FALSE)
    /\ UNCHANGED entered
    /\ UNCHANGED offRouteVars

\* the effect of a rendered <Navigate to=... replace />
routeRedirect ==
    /\ mounted = "Navigate"
    /\ pathname # Closed
    /\ navigate(RedirectTo(pathname), "Routes", TRUE)
    /\ UNCHANGED <<storedToken, entered>>
    /\ UNCHANGED offRouteVars

InitRoute ==
    /\ pathname = Closed
    /\ mounted = "none"
    /\ storedToken = NoToken
    /\ isAuthenticated = "null"
    /\ isAdmin = FALSE
    /\ authEffect = "none"
    /\ adminEffect = FALSE
    /\ entered = NoEntry
    /\ lastNav = NoNav

NextRoute ==
    \/ \E path \in Paths, t \in Tokens \cup {NoToken} : openUrl(path, t)
    \/ useAuthEffect
    \/ \E isValid \in BOOLEAN : authCheckResolved(isValid)
    \/ authCheckRejected
    \/ adminPageEffect
    \/ adminLogout
    \/ routeRedirect

-----------------------------------------------------------------------------
(* Specifications *)

\* the pages added to the resolver, the uploader, the modal and the search
InitPages == InitInput /\ InitDesc /\ InitEditor /\ InitLoad /\ InitLightbox /\ InitRoute

Init ==
    InitPatch /\ InitUpload /\ InitModal /\ InitSearchIdle /\ InitClient /\ InitAdmin
        /\ InitPages

SpecPatch == Init /\ [][NextPatch]_vars

SpecUpload == Init /\ [][NextUpload]_vars

SpecUploads == Init /\ [][NextUploads]_vars

\* the events page over any backend collection, the other subsystems at rest
InitCollections ==
    InitPatch /\ InitUpload /\ InitModal /\ InitSearch /\ InitClient /\ InitAdmin
        /\ InitPages

SpecSearch == InitCollections /\ [][NextSearch]_vars

SpecClient == Init /\ [][NextClient]_vars

SpecAdmin == Init /\ [][NextAdmin]_vars

SpecInput == Init /\ [][NextInput]_vars

SpecOverlap == Init /\ [][NextOverlap]_vars

SpecDesc == Init /\ [][NextDesc]_vars

SpecEditor == Init /\ [][NextEditor]_vars

SpecLoad == Init /\ [][NextLoad]_vars

SpecLightbox == Init /\ [][NextLightbox]_vars

SpecRoute == Init /\ [][NextRoute]_vars

\* React runs the effects of a mounted element, and a request gets its response
RouteFairness ==
    /\ WF_vars(useAuthEffect)
    /\ WF_vars(adminPageEffect)
    /\ WF_vars(routeRedirect)
    /\ WF_vars(authCheckRejected \/ \E isValid \in BOOLEAN : authCheckResolved(isValid))

SpecRouteFair == SpecRoute /\ RouteFairness

Next ==
    \/ NextPatch \/ NextUpload \/ NextModal \/ NextSearch \/ NextClient \/ NextAdmin
    \/ NextInput \/ NextDesc \/ NextEditor \/ NextLoad \/ NextLightbox \/ NextRoute

Spec == Init /\ [][Next]_vars

-----------------------------------------------------------------------------
(* Properties of the description resolver (SpecPatch) *)

\* the last request was an editor PATCH of an event that existed
PatchedExisting == last.op = "patch" /\ last.before.exists

KeyPresent == "description" \in last.payload.keys

AllSpace(s) == \A k \in 1..Len(s) : s[k] = " "

\* t is s without its leading and trailing blanks
IsTrimOf(t, s) ==
    /\ t # <<>>
    /\ t[1] # " "
    /\ t[Len(t)] # " "
    /\ \E k \in 0..(Len(s) - Len(t)) :
          /\ SubSeq(s, k + 1, k + Len(t)) = t
          /\ AllSpace(SubSeq(s, 1, k))
          /\ AllSpace(SubSeq(s, k + Len(t) + 1, Len(s)))

\* C1: a PATCH whose body has no description key succeeds and leaves the stored
\* description of the event exactly as it was; the response echoes that value.
C1_AbsentKeepsDescription ==
    (PatchedExisting /\ ~KeyPresent)
        => /\ last.status = 200
           /\ events[last.id] = last.before
           /\ last.echo = last.before.description

C1_Witness ==
    /\ PatchedExisting
    /\ ~KeyPresent
    /\ last.before.description = Str(<<"a", " ", "a">>)
    /\ last.status = 200

\* C2: a PATCH whose description is null, the empty string or blanks only clears
\* the stored description, and stored record and echoed value are the same (no
\* value) for all three bodies.
C2_NullEmptyBlankClear ==
    (/\ PatchedExisting
     /\ KeyPresent
     /\ \/ last.payload.description = NONE
        \/ /\ last.payload.description.tag = "str"
           /\ AllSpace(last.payload.description.s))
        => /\ last.status = 200
           /\ events[last.id] = Event(NONE)
           /\ last.echo = NONE

C2_Witness ==
    /\ PatchedExisting
    /\ last.payload = [keys |-> {"description"}, description |-> Str(<<" ", " ">>)]
    /\ last.before.description.tag = "str"
    /\ events[last.id].description = NONE

\* C3: a PATCH whose description is a string with a non-blank character stores
\* the trimmed string, whatever was stored before, and echoes it.
C3_ValueOverwritesTrimmed ==
    (/\ PatchedExisting
     /\ KeyPresent
     /\ last.payload.description.tag = "str"
     /\ ~AllSpace(last.payload.description.s))
        => /\ last.status = 200
           /\ events[last.id].exists
           /\ events[last.id].description.tag = "str"
           /\ IsTrimOf(events[last.id].description.s, last.payload.description.s)
           /\ last.echo = events[last.id].description

C3_Witness ==
    /\ PatchedExisting
    /\ last.payload.description = Str(<<" ", "a", " ">>)
    /\ last.before.description = NONE
    /\ events[last.id].description = Str(<<"a">>)

-----------------------------------------------------------------------------
(* Properties of one upload invocation (SpecUpload, invocation 1) *)

Kinds(i) == [k \in 1..Len(outcomes[i]) |-> outcomes[i][k].kind]

NetworkFailures(k) == [j \in 1..k |-> "network"]

Allowed(f) == f.type \in ALLOWED_TYPES

AllowedOf(fl) == SelectSeq(fl, Allowed)

RejectedCount(fl) == Len(fl) - Len(AllowedOf(fl))

\* the entries of the batch in the uploads list
BatchEntries == {k \in 1..Len(uploads) : k > RejectedCount(files[1])
                                          /\ k <= Len(files[1])}

\* C5: with network-class failures on the first k attempts (k = 1, 2) and then a
\* success, the invocation goes on after every failure and ends succeeded after
\* exactly k + 1 requests and exactly k delays of 1500 ms.
C5_RetryThenSuccess ==
    \A k \in 1..2 :
        /\ Kinds(1) = NetworkFailures(k)
              => /\ pc[1] \in {"delay", "await"}
                 /\ delays[1] = [j \in 1..k |-> 1500]
                 /\ Len(sent[1]) = IF pc[1] = "delay" THEN k ELSE k + 1
        /\ Kinds(1) = Append(NetworkFailures(k), "ok")
              => /\ pc[1] = "done"
                 /\ result[1] = "succeeded"
                 /\ Len(sent[1]) = k + 1
                 /\ delays[1] = [j \in 1..k |-> 1500]

C5_Witness ==
    /\ Kinds(1) = <<"network", "network", "ok">>
    /\ Len(sent[1]) = 3
    /\ Len(delays[1]) = 2
    /\ result[1] = "succeeded"

\* C6: a failure in which the backend responded (not network-class) is the last
\* attempt: the invocation is failed at once, without a delay after it and with
\* the generic upload error; on attempt 1 that is 1 request and no delay.
C6_NoRetryOnApplicationError ==
    \A k \in 1..Len(outcomes[1]) :
        outcomes[1][k].kind = "application"
            => /\ k = Len(outcomes[1])
               /\ pc[1] = "done"
               /\ result[1] = "failed"
               /\ Len(sent[1]) = k
               /\ Len(delays[1]) = k - 1
               /\ \A j \in BatchEntries :
                     uploads[j].status = "error" /\ uploads[j].error = MsgUploadFailed

C6_Witness ==
    /\ Kinds(1) = <<"application">>
    /\ Len(sent[1]) = 1
    /\ delays[1] = <<>>
    /\ result[1] = "failed"

\* C7: with network-class failures only, the invocation sends exactly 3 requests,
\* never a 4th, and ends failed with the network message, which is not the
\* generic upload-error message.
C7_ExhaustionAfterThree ==
    /\ Len(sent[1]) <= 3
    /\ Kinds(1) = NetworkFailures(3)
          => /\ pc[1] = "done"
             /\ result[1] = "failed"
             /\ Len(sent[1]) = 3
             /\ \A j \in BatchEntries :
                   /\ uploads[j].status = "error"
                   /\ uploads[j].error = MsgNetworkFailed
                   /\ uploads[j].error # MsgUploadFailed

C7_Witness ==
    /\ Kinds(1) = NetworkFailures(3)
    /\ pc[1] = "done"
    /\ BatchEntries # {}

\* C8: when no selected file has an allowed content type, the invocation is over
\* with one error entry per file and no request was sent.
C8_AllRejectedNoRequest ==
    (files[1] # <<>> /\ AllowedOf(files[1]) = <<>>)
        => /\ pc[1] = "done"
           /\ sent[1] = <<>>
           /\ Len(uploads) = Len(files[1])
           /\ \A k \in 1..Len(uploads) : uploads[k].status = "error"

C8_Witness ==
    /\ Len(files[1]) = 2
    /\ AllowedOf(files[1]) = <<>>
    /\ pc[1] = "done"

C10_SuccessNeedsCreatedPhoto ==
    (\E k \in 1..Len(uploads) : uploads[k].status = "success" /\ uploads[k].progress = 100)
        => /\ outcomes[1] # <<>>
           /\ outcomes[1][Len(outcomes[1])].photos >= 1

-----------------------------------------------------------------------------
(* Properties of the two upload components (SpecUploads) *)

\* the response that completed invocation 1 of the PhotoUploader
LastOutcome == outcomes[1][Len(outcomes[1])]

ServerErrorEntries == {k \in 1..Len(uploads) : uploads[k].filename = <<"Server error">>}

\* C11: a completed response with at least one created photo together with
\* server-reported errors ends the invocation succeeded, never failed: the
\* errors are on the screen as warnings and the photos reach the caller (the
\* modal hands them over when its 500 ms timer fires, the uploader notifies its
\* caller once).
C11_PartialSuccessIsSuccess ==
    /\ (modalResp.kind = "ok" /\ modalResp.photos >= 1 /\ modalResp.errors >= 1)
          => /\ modalStatus = "success"
             /\ modalResp.error = join(responseErrors(modalResp.errors), <<";", " ">>)
             /\ modalResp.error # Null
             /\ \/ modalTimer = Timer(modalResp.photos) /\ modalDelivered = 0
                \/ modalTimer = NoTimer /\ modalDelivered = modalResp.photos
    /\ (pc[1] = "done" /\ outcomes[1] # <<>> /\ LastOutcome.kind = "ok"
        /\ LastOutcome.photos >= 1 /\ LastOutcome.errors >= 1)
          => /\ result[1] = "succeeded"
             /\ notified[1] = 1
             /\ Cardinality(ServerErrorEntries) = LastOutcome.errors
             /\ \A k \in ServerErrorEntries :
                   uploads[k].status = "error" /\ uploads[k].error = MsgServer
             /\ \A k \in 1..Len(uploads) :
                   uploads[k].status = "error"
                      => k <= RejectedCount(files[1]) \/ k \in ServerErrorEntries

C11_Witness ==
    /\ modalResp.kind = "ok"
    /\ modalResp.photos = 2
    /\ modalResp.errors = 1
    /\ modalStatus = "success"
    /\ modalDelivered = 2
    /\ ~modalOpen

\* C12: once the request of an invocation has completed and the handler has
\* run to its end, the component has left the uploading / retrying state and
\* shows one of the two final outcomes, for every completed response and every
\* failure.
C12_CompletedInvocationIsFinal ==
    /\ modalPc = "done" => modalStatus \in {"success", "error"}
    /\ (pc[1] = "done" /\ sent[1] # <<>>)
          => /\ result[1] \in {"succeeded", "failed"}
             /\ ~isUploading
             /\ \A k \in 1..Len(uploads) : ~InFlight(uploads[k])

-----------------------------------------------------------------------------
(* Properties of the search evaluator (SpecSearch) *)

\* q occurs in s when the case of the letters is ignored
OccursIn(q, s) ==
    \E k \in 0..(Len(s) - Len(q)) :
        \A j \in 1..Len(q) : toLowerChar(s[k + j]) = toLowerChar(q[j])

\* the query occurs in one of the five searched fields of the event; an absent
\* field holds nothing
QueryOccurs(event) ==
    \E field \in {event.name, event.responsible, event.location,
                  event.description, event.event_date} :
        field # NONE /\ OccursIn(searchQuery, field.s)

\* the matching predicate: every event matches a blank query
Matches(event) == AllSpace(searchQuery) \/ QueryOccurs(event)

\* the event at place k of input group g is in the result, in the group of the same id
Kept(g, k) ==
    \E h \in 1..Len(shown) :
        /\ shown[h].id = categories[g].id
        /\ \E j \in 1..Len(shown[h].events) : shown[h].events[j] = categories[g].events[k]

\* the place in the input of the group at place h of the result (0: there is none)
Pos(h) ==
    IF \E g \in 1..Len(categories) : categories[g].id = shown[h].id
    THEN CHOOSE g \in 1..Len(categories) : categories[g].id = shown[h].id
    ELSE 0

\* a is b with some elements left out
RECURSIVE IsSubSeq(_, _)
IsSubSeq(a, b) ==
    IF a = <<>> THEN TRUE
    ELSE IF b = <<>> THEN FALSE
    ELSE IF Head(a) = Head(b) THEN IsSubSeq(Tail(a), Tail(b))
    ELSE IsSubSeq(a, Tail(b))

\* the result holds groups of the input only, in the order of the input
GroupsInOrder ==
    /\ \A h \in 1..Len(shown) : Pos(h) # 0
    /\ \A h1, h2 \in 1..Len(shown) : h1 < h2 => Pos(h1) < Pos(h2)

\* every result group holds events of its input group only, in their order
EventsInOrder ==
    \A h \in 1..Len(shown) :
        Pos(h) # 0 => IsSubSeq(shown[h].events, categories[Pos(h)].events)

\* C13: with an empty or whitespace-only query the result equals the loaded
\* collection in groups, events and order, groups without events included.
C13_BlankQueryIsIdentity ==
    AllSpace(searchQuery) => shown = categories

C13_Witness ==
    /\ searchQuery = <<" ", " ">>
    /\ Len(categories) = 2
    /\ categories[1].events = <<>>
    /\ categories[2].events # <<>>
    /\ categories[2].events[1].name = Str(<<"A">>)
    /\ shown = categories

\* C14: an event of the loaded collection is in the result whenever the query
\* occurs, letter case ignored, in its name, responsible, location, description
\* or date label.
C14_SubstringMatchIsKept ==
    \A g \in 1..Len(categories) :
        \A k \in 1..Len(categories[g].events) :
            QueryOccurs(categories[g].events[k]) => Kept(g, k)

C14_Witness ==
    /\ searchQuery = <<" ", "A">>
    /\ \E g \in 1..Len(categories) :
          \E k \in 1..Len(categories[g].events) :
              /\ categories[g].events[k].event_date = Str(<<" ", "a">>)
              /\ Kept(g, k)
    /\ Len(shown) < Len(categories)

\* C15 as stated: an event is absent from the result whenever the query occurs
\* in none of its five fields.
C15_NoSubstringIsDropped ==
    \A g \in 1..Len(categories) :
        \A k \in 1..Len(categories[g].events) :
            ~QueryOccurs(categories[g].events[k]) => ~Kept(g, k)

\* C15 amended: for a query with a non-blank character, an event is absent from
\* the result whenever the query occurs in none of its five fields, an absent
\* field never matching.
C15_NonBlankNoSubstringIsDropped ==
    ~AllSpace(searchQuery) =>
        \A g \in 1..Len(categories) :
            \A k \in 1..Len(categories[g].events) :
                ~QueryOccurs(categories[g].events[k]) => ~Kept(g, k)

C15_Witness ==
    /\ searchQuery = <<"a", " ">>
    /\ Len(categories) = 2
    /\ Len(categories[1].events) = 1
    /\ categories[1].events[1].location = NONE
    /\ Len(categories[2].events) = 1
    /\ categories[2].events[1].location = Str(<<"a", " ">>)
    /\ ~Kept(1, 1)
    /\ Kept(2, 1)

\* C16 as stated: for every query the result holds only groups with at least
\* one matching event, every result group holds only matching events, and
\* groups and events keep the order of the input.
C16_OnlyMatchingInOrder ==
    /\ \A h \in 1..Len(shown) :
          /\ shown[h].events # <<>>
          /\ \A j \in 1..Len(shown[h].events) : Matches(shown[h].events[j])
    /\ GroupsInOrder
    /\ EventsInOrder

\* C16 amended: for a query with a non-blank character the result holds only
\* groups with at least one matching event, and for every query each result
\* group holds only matching events and groups and events keep the order of
\* the input.
C16_NonBlankOnlyMatchingInOrder ==
    /\ \A h \in 1..Len(shown) :
          /\ ~AllSpace(searchQuery) => shown[h].events # <<>>
          /\ \A j \in 1..Len(shown[h].events) : Matches(shown[h].events[j])
    /\ GroupsInOrder
    /\ EventsInOrder

C16_Witness ==
    /\ searchQuery = <<"a", "a">>
    /\ Len(categories) = 2
    /\ Len(categories[1].events) = 1
    /\ categories[1].events[1].id = 1
    /\ Len(categories[2].events) = 1
    /\ categories[2].events[1].id = 2
    /\ shown = <<categories[2]>>

-----------------------------------------------------------------------------
(* More properties of the description resolver (SpecPatch) *)

NullPayload == [keys |-> {"description"}, description |-> NONE]

\* C17: the second of two explicit-null PATCH requests in a row on an event
\* leaves the stored record as the first one left it, which is the cleared
\* record, whatever description was stored before the first.
C17_NullPatchIdempotent ==
    (PatchedExisting /\ last.again /\ last.payload = NullPayload)
        => /\ last.status = 200
           /\ events[last.id] = last.before
           /\ events[last.id] = Event(NONE)
           /\ last.echo = NONE

C17_Witness ==
    /\ PatchedExisting
    /\ last.again
    /\ last.payload = NullPayload
    /\ last.prior = Event(Str(<<"a", " ", "a">>))
    /\ last.before = Event(NONE)
    /\ events[last.id] = Event(NONE)


\* the last request was an administrator update of an event that existed
AdminUpdated == last.op = "update" /\ last.before.exists

-----------------------------------------------------------------------------
(* Properties of the API client (SpecClient) *)

\* the path ends with one of the two login paths
LoginUrl(url) ==
    /\ url # Undefined
    /\ \E k \in 0..Len(url) :
          SubSeq(url, k + 1, Len(url)) \in {UrlAuthLogin, UrlAuthAdminLogin}

\* C19: a failed response removes the stored token and sends the browser to
\* /view exactly when its status is 401 and the request was not to a login
\* endpoint; a request without URL is no login request, and every other failed
\* response, a 401 of a login endpoint included, leaves token and page alone.
C19_LogoutOnlyOnForeign401 ==
    authLast.kind = "error"
        => IF authLast.status = 401 /\ ~LoginUrl(authLast.url)
           THEN token = NoToken /\ href = "/view"
           ELSE token = authLast.token /\ href = authLast.href

C19_Witness ==
    /\ authLast.kind = "error"
    /\ authLast.status = 401
    /\ authLast.url = UrlAuthAdminLogin
    /\ token = "user-token"
    /\ href = "/events"

-----------------------------------------------------------------------------
(* Properties of the admin page (SpecAdmin) *)

\* C20: a delete-category request is sent only for a category whose
\* confirmation prompt the administrator accepted; after a declined prompt no
\* request has been sent and the displayed categories and events, and the
\* backend, are as the prompt found them.
C20_DeleteOnlyAfterConfirm ==
    /\ deleteRequests \subseteq acceptedPrompts
    /\ adminPc = "deleting" => adminTarget \in acceptedPrompts
    /\ \A id \in CategoryIds : ~adminServer[id].exists => id \in acceptedPrompts
    /\ (adminLast.id # 0 /\ ~adminLast.accepted)
          => /\ adminPc = "idle"
             /\ deleteRequests = adminLast.requests
             /\ adminCategories = adminLast.categories
             /\ adminServer = adminLast.server

C20_Witness ==
    /\ adminLast.id = 1
    /\ ~adminLast.accepted
    /\ deleteRequests = {2}
    /\ adminCategories = <<[id |-> 1, events |-> 1]>>
    /\ adminServer[1].exists


-----------------------------------------------------------------------------
(* Properties of the search box (SpecInput) *)

\* C21: after the clear button was pressed, the query held by the parent is
\* the empty string, and stays so until the user types again.
C21_ClearedStaysEmpty == cleared => searchQuery = <<>>

\* C22: for a burst of keystrokes, each less than debounceMs after the one
\* before it, the debounce timer calls the parent's onChange exactly once, with
\* the value of the last keystroke and not before debounceMs have passed since
\* that keystroke; when the clear button was not pressed during the burst this
\* is the only onChange call made for it.
C22_OneCallPerBurst ==
    burst.active =>
        /\ sinceKey < debounceMs => debounceRef.pending /\ burst.timerCalls = 0
        /\ debounceRef.pending =>
              /\ burst.timerCalls = 0
              /\ debounceRef.value = burst.value
              /\ sinceKey = debounceMs => TimerDue
        /\ ~debounceRef.pending =>
              /\ burst.timerCalls = 1
              /\ burst.firedValue = burst.value
              /\ burst.firedAfter >= debounceMs
        /\ ~burst.clear => burst.calls = burst.timerCalls

C22_Witness ==
    /\ burst.active
    /\ burst.several
    /\ ~burst.clear
    /\ ~debounceRef.pending
    /\ burst.calls = 1
    /\ burst.firedAfter = debounceMs
    /\ burst.value = <<"a", "b">>
    /\ searchQuery = <<"a", "b">>
    /\ localValue = <<"a", "b">>


-----------------------------------------------------------------------------
(* Properties of a finished upload invocation (SpecUploads) *)

\* invocation 1 of the PhotoUploader has reached Succeeded or Failed
UploaderTerminal == pc[1] = "done" /\ result[1] \in {"succeeded", "failed"}

\* the handleUpload call of the modal has reached Succeeded or Failed
ModalTerminal == modalPc = "done" /\ modalStatus \in {"success", "error"}

\* a step that leaves the finished invocation of the PhotoUploader as it is:
\* entries can go from the list (the clean-up timer), none changes or comes back
UploaderStays ==
    /\ pc'[1] = "done"
    /\ result'[1] = result[1]
    /\ outcomes'[1] = outcomes[1]
    /\ isUploading' = FALSE
    /\ \A k \in 1..Len(uploads') :
          /\ ~InFlight(uploads'[k])
          /\ \E j \in 1..Len(uploads) : uploads[j] = uploads'[k]

ModalStays == modalPc' = "done" /\ modalStatus' = modalStatus /\ modalResp' = modalResp

\* C23 as stated: once an invocation has reached Succeeded or Failed, no later
\* event puts it back into uploading or retrying or changes its outcome; only
\* a new file selection (for the modal: opening it anew) starts again.
C23_TerminalIsFinal ==
    [][/\ UploaderTerminal => UploaderStays \/ \E fl \in FileLists : handleUpload(1, fl)
       /\ ModalTerminal => ModalStays \/ openModal]_vars

\* C23, amended: the same, except that in the modal a failed invocation is
\* also started again by pressing upload again with the selection it kept.
C23_TerminalIsFinalButRepress ==
    [][/\ UploaderTerminal => UploaderStays \/ \E fl \in FileLists : handleUpload(1, fl)
       /\ ModalTerminal =>
             \/ ModalStays
             \/ openModal
             \/ modalStatus = "error" /\ modalHandleUpload]_vars

\* the modal has failed and a later selection has replaced the error message
C23_Witness ==
    /\ modalStatus = "error"
    /\ modalPc = "done"
    /\ modalResp.kind = "network"
    /\ modalError = Null
    /\ Len(modalFiles) = 2


-----------------------------------------------------------------------------
(* Properties of the retry status (SpecUpload) *)

\* the number of attempts invocation 1 has started
Started == Len(sent[1])

\* a step in which invocation 1 starts a retry attempt
RetryStarts == pc[1] = "delay" /\ pc'[1] = "await"

\* C24: the status retrying is on the screen only once attempt 2 or 3 has
\* started, never during attempt 1, with the number of the attempt that was
\* started last; when retry attempt k starts, every file of the batch shows
\* retrying, progress 0 and attempt number k, and k is 2 or 3.
C24_RetryingFromAttemptTwo ==
    /\ [](\A j \in 1..Len(uploads) :
             uploads[j].status = "retrying"
                => /\ Started \in 2..MAX_RETRY_ATTEMPTS
                   /\ uploads[j].retryAttempt = Started
                   /\ j \in BatchEntries)
    /\ []((pc[1] = "await" /\ Started = 1)
             => \A j \in BatchEntries :
                   uploads[j].status = "uploading" /\ uploads[j].retryAttempt = 0)
    /\ [][RetryStarts =>
             /\ Started' = Started + 1
             /\ Started' = attempt[1]
             /\ Started' \in 2..MAX_RETRY_ATTEMPTS
             /\ \A j \in BatchEntries :
                   /\ uploads'[j].status = "retrying"
                   /\ uploads'[j].progress = 0
                   /\ uploads'[j].retryAttempt = Started']_vars

\* the third attempt has just started, for a selection of two allowed files
\* and a refused one
C24_Witness ==
    /\ pc[1] = "await"
    /\ Started = 3
    /\ Len(valid[1]) = 2
    /\ RejectedCount(files[1]) = 1
    /\ \A j \in BatchEntries :
          /\ uploads[j].status = "retrying"
          /\ uploads[j].progress = 0
          /\ uploads[j].retryAttempt = 3


-----------------------------------------------------------------------------
(* Properties of overlapping invocations (SpecOverlap) *)

Running(i) == pc[i] \in {"await", "delay"}

\* the entries of the uploads list that belong to the valid files of invocation i
OwnedInFlight(i) == {k \in 1..Len(uploads) : uploads[k].inv = i /\ InFlight(uploads[k])}

\* C25: overlapping invocations are independent: while an invocation is
\* running (its request or its retry delay is pending), every file of its batch
\* is on the list, uploading or retrying, whatever the other invocation does.
C25_RunningInvocationKeepsItsFiles ==
    \A i \in Invs : Running(i) => Cardinality(OwnedInFlight(i)) = Len(valid[i])


-----------------------------------------------------------------------------
(* Properties of the description cache (SpecDesc) *)

\* C26: when two description updates of the event were in flight at the same
\* time and both have succeeded, the cached description is the value of the
\* update whose response arrived last, whichever of the two was issued first.
C26_LastResponseWins ==
    Len(descArrivals) = 2 => descCached = descArrivals[2].description

\* the update issued first was answered last, after the backend had handled it
\* first: the cache holds its value, the backend stores the other one
C26_Witness ==
    /\ Len(descArrivals) = 2
    /\ descArrivals[2].first
    /\ ~descArrivals[1].first
    /\ descArrivals[2].description = Str(<<"a", " ">>)
    /\ descArrivals[1].description = NONE
    /\ descCached = Str(<<"a", " ">>)
    /\ descStored = NONE


-----------------------------------------------------------------------------
(* Properties of the description editors (SpecEditor) *)

\* C27: when a save has failed, the editor holds exactly the text the field
\* held when the save started, an error is on the screen, and the field is
\* editable again.
C27_FailedSaveKeepsText ==
    edLast.outcome = "failed"
        => /\ edText = edLast.typed
           /\ edError # Null
           /\ ~edSaving


-----------------------------------------------------------------------------
(* Properties of the month loader (SpecLoad) *)

\* C28: whenever the page is not loading and shows no error, the categories
\* it displays are the ones returned for the selected month.
C28_ShownIsSelectedMonth ==
    (~loading /\ loadError = Null) => monthShown = selectedMonth


\* C29: while the photo lightbox of an event is open, its index refers to an
\* existing photo of the event, whatever navigation, confirmed deletions
\* (overlapping ones included) and deletion completions or failures preceded.
C29_IndexRefersToPhoto ==
    LightboxOpen => lightboxIndex \in 0..(Len(eventPhotos) - 1)


\* C30: for a visitor who opened /events or /admin with no stored token, the
\* navigations end: from some moment on the location never changes again; the
\* authentication hook and the route table do not redirect to each other
\* forever.
VisitorWithoutToken ==
    entered.path \in {"/events", "/admin"} /\ entered.token = NoToken

C30_RedirectsEnd ==
    (<>VisitorWithoutToken) => <>[][pathname' = pathname]_vars

=============================================================================
